---------------------------- MODULE Spec2Model ----------------------------
(***************************************************************************)
(* A model of polyportal: the credential vault of the CLI                  *)
(* (cli/src/crypto.rs), the response decoder of the SDK client             *)
(* (sdk/src/client.rs) and the call-data encoder of the SDK                *)
(* (sdk/src/contract.rs, sdk/src/contract/abi.rs).                         *)
(*                                                                         *)
(* Text is a sequence of bytes (a Rust str is its UTF-8 bytes), a byte is  *)
(* a number in 0..255, and a usize or u64 is the big-endian sequence of    *)
(* its bytes, so that 64-bit arithmetic wraps or overflows where the       *)
(* program's does.                                                         *)
(***************************************************************************)
EXTENDS Naturals, Sequences, FiniteSets, TLC

VARIABLES
    d_pc,        \* decoder: "idle", "received" (a response is in hand), "done"
    d_urls,      \* decoder: the urls the contract returned
    d_descs,     \* decoder: the descriptions the contract returned
    d_response,  \* decoder: the JSON-RPC response handed to the decoder
    d_damage,    \* decoder: what happened to the return data on its way
    d_out,       \* decoder: the outcome of decode_endpoints_response
    v_pc,        \* vault: "idle", "stored" (a blob is at rest), "done"
    v_key,       \* vault: the secret handed to encrypt_private_key
    v_password,  \* vault: the password handed to encrypt_private_key
    v_enc,       \* vault: the call frame of encrypt_private_key
    v_blob,      \* vault: the text handed to decrypt_private_key
    v_damage,    \* vault: what happened to the blob at rest
    v_dec,       \* vault: the call frame of decrypt_private_key
    c_call,      \* encoder: the last call of an encoding function, with its result
    t_tx,        \* call data: the TransactionData value in hand
    t_origin,    \* call data: how the value was constructed
    t_born,      \* call data: the bytes build() returned for it when constructed
    t_built,     \* call data: the last build(): the value it ran on, what it returned
    t_hex,       \* call data: the last to_hex(): the value it ran on, what it returned
    t_ops,       \* call data: the number of operations done on the value
    th_call,     \* threads: the call each thread is running
    th_pc,       \* threads: how many steps of its call each thread has done
    th_buf,      \* threads: the buffers the calls build their results in
    th_out,      \* threads: what each returned call has returned
    f_wallet,    \* files: wallet.toml
    f_config,    \* files: config.toml
    f_rust,      \* files: rust/config.toml and its directory
    k_proc,      \* cli: the wallet-adding command of each terminal
    k_import,    \* cli: what the last import_key did
    k_deploy,    \* cli: what the last deploy_contract did
    k_log,       \* cli: the commands that have succeeded, in order
    k_runs,      \* cli: how many commands have been started
    m_wallets,   \* a WalletsFile value in memory
    m_calls,     \* the add_wallet calls made on it
    m_got        \* what the last get_wallet call on it returned

vault_vars == <<v_pc, v_key, v_password, v_enc, v_blob, v_damage, v_dec>>

decoder_vars == <<d_pc, d_urls, d_descs, d_response, d_damage, d_out>>

encoder_vars == <<c_call, t_tx, t_origin, t_born, t_built, t_hex, t_ops>>

thread_vars == <<th_call, th_pc, th_buf, th_out>>

cli_vars ==
    <<f_wallet, f_config, f_rust, k_proc, k_import, k_deploy, k_log, k_runs,
      m_wallets, m_calls, m_got>>

vars == <<vault_vars, decoder_vars, encoder_vars, thread_vars, cli_vars>>

---------------------------------------------------------------------------
(* Bytes and text *)

Byte == 0..255

\* The ASCII code of a one-character string.
CharCode(c) ==
    CASE c = "0" -> 48 [] c = "1" -> 49 [] c = "2" -> 50 [] c = "3" -> 51
      [] c = "4" -> 52 [] c = "5" -> 53 [] c = "6" -> 54 [] c = "7" -> 55
      [] c = "8" -> 56 [] c = "9" -> 57 [] c = " " -> 32 [] c = ":" -> 58
      [] c = "a" -> 97 [] c = "b" -> 98 [] c = "c" -> 99 [] c = "d" -> 100
      [] c = "e" -> 101 [] c = "f" -> 102 [] c = "g" -> 103 [] c = "i" -> 105
      [] c = "l" -> 108 [] c = "n" -> 110 [] c = "o" -> 111 [] c = "p" -> 112
      [] c = "r" -> 114 [] c = "t" -> 116 [] c = "u" -> 117 [] c = "v" -> 118
      [] c = "w" -> 119 [] c = "x" -> 120
      [] c = "A" -> 65 [] c = "B" -> 66 [] c = "F" -> 70
      [] c = "W" -> 87 [] c = "X" -> 88

\* The bytes of a text given as a tuple of one-character strings.
Str(cs) == [i \in 1..Len(cs) |-> CharCode(cs[i])]

Take(s, n) == SubSeq(s, 1, n)
Drop(s, n) == SubSeq(s, n + 1, Len(s))

Min(a, b) == IF a <= b THEN a ELSE b

\* str::strip_prefix(p).unwrap_or(s)
StripPrefix(s, p) ==
    IF Len(s) >= Len(p) /\ Take(s, Len(p)) = p THEN Drop(s, Len(p)) ELSE s

Xor(a, b) ==
    LET bit(k) == (((a \div (2^k)) % 2) + ((b \div (2^k)) % 2)) % 2
    IN  bit(0) + 2 * bit(1) + 4 * bit(2) + 8 * bit(3)
        + 16 * bit(4) + 32 * bit(5) + 64 * bit(6) + 128 * bit(7)

\* s[i] + s[i + step] + ... to the end of s.
RECURSIVE StrideSum(_, _, _)
StrideSum(s, i, step) ==
    IF i > Len(s) THEN 0 ELSE s[i] + StrideSum(s, i + step, step)

---------------------------------------------------------------------------
(* The hex crate *)

\* hex::encode writes lowercase digits.
HexDigit(n) == IF n < 10 THEN 48 + n ELSE 87 + n

hex_encode(bs) ==
    [i \in 1..(2 * Len(bs)) |->
        LET b == bs[(i + 1) \div 2]
        IN  IF i % 2 = 1 THEN HexDigit(b \div 16) ELSE HexDigit(b % 16)]

\* The value of a hex digit of either case; 16 for any other byte.
HexVal(c) ==
    IF c >= 48 /\ c <= 57 THEN c - 48
    ELSE IF c >= 97 /\ c <= 102 THEN c - 87
    ELSE IF c >= 65 /\ c <= 70 THEN c - 55
    ELSE 16

\* hex::decode: an odd length is refused first, then any byte that is no digit.
hex_decode(s) ==
    IF Len(s) % 2 = 1 THEN [ok |-> FALSE, err |-> "OddLength", val |-> <<>>]
    ELSE IF \E i \in 1..Len(s) : HexVal(s[i]) = 16
    THEN [ok |-> FALSE, err |-> "InvalidHexCharacter", val |-> <<>>]
    ELSE [ok |-> TRUE, err |-> "",
          val |-> [i \in 1..(Len(s) \div 2) |->
                      16 * HexVal(s[2 * i - 1]) + HexVal(s[2 * i])]]

---------------------------------------------------------------------------
(* The sha2 and aes-gcm crates.  The repository calls them and does not    *)
(* define them: each is stood in for by a function of the same shape with  *)
(* the property the vault relies on.  Sha256 is collision-free on the      *)
(* messages of the model (at most 31 bytes).  Aes256Gcm is a stream cipher *)
(* (the ciphertext is the plaintext XOR a keystream of the key and nonce)  *)
(* followed by a 16-byte tag over key, nonce and ciphertext, which         *)
(* decryption recomputes and compares before it releases any plaintext.    *)

DIGEST_SIZE == 32
TAG_SIZE == 16

Sha256(msg) ==
    [j \in 1..DIGEST_SIZE |->
        IF j = 1 THEN Len(msg) % 256
        ELSE StrideSum(msg, j - 1, DIGEST_SIZE - 1) % 256]

KeyStream(key, nonce, i) ==
    (key[((i - 1) % Len(key)) + 1] + nonce[((i - 1) % Len(nonce)) + 1] + i) % 256

GcmCrypt(key, nonce, data) ==
    [i \in 1..Len(data) |-> Xor(data[i], KeyStream(key, nonce, i))]

GcmTag(key, nonce, ct) ==
    [j \in 1..TAG_SIZE |->
        (key[j] + 3 * key[j + TAG_SIZE]
         + 5 * (IF j <= Len(nonce) THEN nonce[j] ELSE 0)
         + 7 * StrideSum(ct, j, TAG_SIZE)
         + Len(ct)) % 256]

\* Aead::encrypt: the ciphertext with the tag appended.
AeadEncrypt(key, nonce, plaintext) ==
    LET ct == GcmCrypt(key, nonce, plaintext)
    IN  ct \o GcmTag(key, nonce, ct)

\* A decryption that releases the plaintext without comparing the tag.
AeadDecryptUnchecked(key, nonce, data) ==
    IF Len(data) < TAG_SIZE THEN [ok |-> FALSE, val |-> <<>>]
    ELSE [ok |-> TRUE, val |-> GcmCrypt(key, nonce, Take(data, Len(data) - TAG_SIZE))]

\* Aead::decrypt: an error unless the tag verifies.
AeadDecrypt(key, nonce, data) ==
    IF Len(data) < TAG_SIZE THEN [ok |-> FALSE, val |-> <<>>]
    ELSE LET ct  == Take(data, Len(data) - TAG_SIZE)
             tag == Drop(data, Len(data) - TAG_SIZE)
         IN  IF GcmTag(key, nonce, ct) = tag
             THEN [ok |-> TRUE, val |-> GcmCrypt(key, nonce, ct)]
             ELSE [ok |-> FALSE, val |-> <<>>]

---------------------------------------------------------------------------
(* cli/src/crypto.rs *)

SALT_SIZE == 16
NONCE_SIZE == 12

PREFIX_0x == Str(<<"0", "x">>)

\* The nonce written before the salt.
CombineNonceFirst(salt, nonce, ciphertext) == nonce \o salt \o ciphertext

\* Lines 34-37: the stored bytes are salt, nonce, ciphertext with its tag.
Combine(salt, nonce, ciphertext) == salt \o nonce \o ciphertext

\* Lines 18-21 and 56-59: the key is the hash of the password, then the salt.
DeriveKey(password, salt) == Sha256(password \o salt)

\* The call frame of encrypt_private_key: salt and nonce are what the
\* random source drew.  The draws and the key derivation come before the
\* secret is hex-decoded, so they happen also when that fails.
encrypt_private_key(key, password, salt, nonce) ==
    LET encryption_key == DeriveKey(password, salt)
        decoded        == hex_decode(StripPrefix(key, PREFIX_0x))
        ciphertext     == AeadEncrypt(encryption_key, nonce, decoded.val)
        frame          == [salt |-> salt, nonce |-> nonce,
                           encryption_key |-> encryption_key,
                           private_key_bytes |-> decoded.val]
    IN  IF ~decoded.ok
        THEN frame @@ [ok |-> FALSE, val |-> <<>>,
                       err |-> "Failed to decode private key",
                       ciphertext |-> <<>>]
        ELSE frame @@ [ok |-> TRUE,
                       val |-> hex_encode(Combine(salt, nonce, ciphertext)),
                       err |-> "", ciphertext |-> ciphertext]

\* A length check that forgets the nonce.
TooShortForSalt(data) == Len(data) < SALT_SIZE

\* Line 46: the blob cannot hold a salt and a nonce.
TooShort(data) == Len(data) < SALT_SIZE + NONCE_SIZE

\* The recovered secret without its prefix.
FormatKeyBare(plaintext) == hex_encode(plaintext)

\* Line 69: the recovered secret as text.
FormatKey(plaintext) == PREFIX_0x \o hex_encode(plaintext)

NoFrame ==
    [salt |-> <<>>, nonce_bytes |-> <<>>, ciphertext |-> <<>>,
     encryption_key |-> <<>>]

\* The call frame of decrypt_private_key; steps lists the stages it ran.
\* The slices of lines 51-53 are range-checked: they panic on a blob shorter
\* than their end, which the check of line 46 rules out.
decrypt_private_key(encrypted, password) ==
    LET decoded == hex_decode(encrypted)
        data    == decoded.val
        salt        == SubSeq(data, 1, SALT_SIZE)
        nonce_bytes == SubSeq(data, SALT_SIZE + 1, SALT_SIZE + NONCE_SIZE)
        ciphertext  == Drop(data, SALT_SIZE + NONCE_SIZE)
        encryption_key == DeriveKey(password, salt)
        plaintext   == AeadDecrypt(encryption_key, nonce_bytes, ciphertext)
        frame == [salt |-> salt, nonce_bytes |-> nonce_bytes,
                  ciphertext |-> ciphertext,
                  encryption_key |-> encryption_key]
    IN  IF ~decoded.ok
        THEN NoFrame @@ [ok |-> FALSE, val |-> <<>>, err |-> decoded.err,
                         steps |-> <<"hex_decode">>]
        ELSE IF TooShort(data)
        THEN NoFrame @@ [ok |-> FALSE, val |-> <<>>,
                         err |-> "Invalid encrypted data format",
                         steps |-> <<"hex_decode", "check_length">>]
        ELSE IF Len(data) < SALT_SIZE + NONCE_SIZE
        THEN NoFrame @@ [ok |-> FALSE, val |-> <<>>,
                         err |-> "panic: range end index out of range",
                         steps |-> <<"hex_decode", "check_length", "split">>]
        ELSE IF ~plaintext.ok
        THEN frame @@ [ok |-> FALSE, val |-> <<>>,
                       err |-> "Decryption failed - wrong password?",
                       steps |-> <<"hex_decode", "check_length", "split",
                                   "derive_key", "decrypt">>]
        ELSE frame @@ [ok |-> TRUE, val |-> FormatKey(plaintext.val),
                       err |-> "",
                       steps |-> <<"hex_decode", "check_length", "split",
                                   "derive_key", "decrypt">>]

---------------------------------------------------------------------------
(* Machine integers.  A u64 or usize is the big-endian sequence of its     *)
(* bytes.  A build fixes the width of usize (8 bytes natively, 4 on        *)
(* wasm32, which sdk/src/client.rs lines 8-11 provide for) and whether     *)
(* arithmetic overflow panics (debug) or wraps (release).                  *)

Builds == [usize_bytes : {4, 8}, overflow_checks : BOOLEAN]

\* The usize of a number below 2^31.
UsizeOf(n, w) ==
    [i \in 1..w |-> IF w - i >= 4 THEN 0 ELSE (n \div (256^(w - i))) % 256]

\* The number a usize holds, when it is below 2^31.
ToNat(a) ==
    LET w == Len(a)
    IN  a[w] + 256 * a[w - 1] + 65536 * a[w - 2] + 16777216 * a[w - 3]

\* `as usize`: the low bytes of a u64.
AsUsize(v, w) == SubSeq(v, Len(v) - w + 1, Len(v))

\* a < b
Less(a, b) ==
    \E i \in 1..Len(a) : a[i] < b[i] /\ \A j \in 1..(i - 1) : a[j] = b[j]

\* The sum of the bytes of a and b from place i on, with its carry out.
RECURSIVE AddFrom(_, _, _)
AddFrom(a, b, i) ==
    IF i > Len(a) THEN [val |-> <<>>, carry |-> 0]
    ELSE LET rest == AddFrom(a, b, i + 1)
             t    == a[i] + b[i] + rest.carry
         IN  [val |-> <<t % 256>> \o rest.val, carry |-> t \div 256]

\* a + b: the wrapped sum, and whether it overflowed.
Add(a, b) ==
    LET r == AddFrom(a, b, 1)
    IN  [val |-> r.val, overflow |-> r.carry = 1]

---------------------------------------------------------------------------
(* String::from_utf8 *)

IsCont(s, i) == i >= 1 /\ i <= Len(s) /\ s[i] >= 128 /\ s[i] <= 191

\* The continuation bytes a first byte asks for; 4 for a byte that cannot
\* come first (a continuation byte, C0, C1, F5 and above).
ContBytes(c) ==
    IF c <= 127 THEN 0
    ELSE IF c >= 194 /\ c <= 223 THEN 1
    ELSE IF c >= 224 /\ c <= 239 THEN 2
    ELSE IF c >= 240 /\ c <= 244 THEN 3
    ELSE 4

\* Well-formed UTF-8: each byte that is no continuation byte is a first
\* byte followed by the continuation bytes it asks for, the second within
\* the range that excludes overlong forms, surrogates and values above
\* U+10FFFF; and each continuation byte follows such a first byte.
from_utf8_ok(s) ==
    \A i \in 1..Len(s) :
        LET c == s[i]
        IN  IF c >= 128 /\ c <= 191
            THEN \E d \in 1..3 :
                    /\ i - d >= 1
                    /\ ContBytes(s[i - d]) <= 3
                    /\ ContBytes(s[i - d]) >= d
                    /\ \A j \in (i - d + 1)..(i - 1) : IsCont(s, j)
            ELSE /\ ContBytes(c) <= 3
                 /\ \A j \in (i + 1)..(i + ContBytes(c)) : IsCont(s, j)
                 /\ (c = 224 => s[i + 1] >= 160)
                 /\ (c = 237 => s[i + 1] <= 159)
                 /\ (c = 240 => s[i + 1] >= 144)
                 /\ (c = 244 => s[i + 1] <= 143)

---------------------------------------------------------------------------
(* sdk/src/client.rs: the response decoder *)

Ok(v)     == [kind |-> "ok", val |-> v, err |-> ""]
Err(e)    == [kind |-> "err", val |-> <<>>, err |-> e]
Panic(e)  == [kind |-> "panic", val |-> <<>>, err |-> e]

\* A parse_u256 that refuses a word whose bytes 0..24 are not all zero.
parse_u256_checked(bytes) ==
    IF Len(bytes) < 32 THEN Err("Not enough bytes")
    ELSE IF \E i \in 1..24 : bytes[i] # 0 THEN Err("Value out of range")
    ELSE Ok(SubSeq(bytes, 25, 32))

\* parse_u256: the last 8 bytes of a 32-byte word, as a u64.
parse_u256(bytes) ==
    IF Len(bytes) < 32 THEN Err("Not enough bytes")
    ELSE Ok(SubSeq(bytes, 25, 32))

\* An outcome of the array decoder, with the number of times the body of
\* its loop was entered.
After(rounds, outcome) == outcome @@ [rounds |-> rounds]

\* Lines 161-178, from iteration i with the cursor at pos (a number: it
\* never passes the end of the buffer).
RECURSIVE InnerLoop(_, _, _, _, _, _)
InnerLoop(bytes, len, i, pos, strings, build) ==
    LET w    == build.usize_bytes
        blen == UsizeOf(Len(bytes), w)
        next(found) == InnerLoop(bytes, len, i + 1, pos + 32, found, build)
    IN  IF ~Less(UsizeOf(i, w), len) THEN After(i, Ok(strings))
        ELSE IF Len(bytes) < pos + 32 THEN After(i + 1, Ok(strings))
        ELSE
        LET string_offset == AsUsize(parse_u256(SubSeq(bytes, pos + 1, pos + 32)).val, w)
            data_start    == Add(string_offset, UsizeOf(32, w))
        IN  IF data_start.overflow /\ build.overflow_checks
            THEN After(i + 1, Panic("attempt to add with overflow"))
            ELSE IF Less(blen, data_start.val) THEN next(strings)
            ELSE IF Less(data_start.val, string_offset)
            THEN After(i + 1, Panic("slice index starts after its end"))
            ELSE
            LET so         == ToNat(string_offset)
                string_len == AsUsize(parse_u256(SubSeq(bytes, so + 1, so + 32)).val, w)
                data_end   == Add(data_start.val, string_len)
            IN  IF data_end.overflow /\ build.overflow_checks
                THEN After(i + 1, Panic("attempt to add with overflow"))
                ELSE IF Less(blen, data_end.val) THEN next(strings)
                ELSE IF Less(data_end.val, data_start.val)
                THEN After(i + 1, Panic("slice index starts after its end"))
                ELSE
                LET string_bytes == SubSeq(bytes, so + 33, ToNat(data_end.val))
                IN  IF from_utf8_ok(string_bytes)
                    THEN next(Append(strings, string_bytes))
                    ELSE next(strings)

\* An array decoder whose loop skips an offset word outside the buffer and
\* goes on (`continue` for the `break` of line 163): it runs as many times
\* as the length word says (counted up to 2^31 - 1).
decode_abi_string_array_inner_continue(bytes, offset, build) ==
    LET w     == build.usize_bytes
        blen  == UsizeOf(Len(bytes), w)
        first == Add(offset, UsizeOf(32, w))
    IN  IF first.overflow /\ build.overflow_checks
        THEN After(0, Panic("attempt to add with overflow"))
        ELSE IF Less(blen, first.val) THEN After(0, Ok(<<>>))
        ELSE IF Less(first.val, offset)
        THEN After(0, Panic("slice index starts after its end"))
        ELSE
        LET o    == ToNat(offset)
            len  == AsUsize(parse_u256(SubSeq(bytes, o + 1, o + 32)).val, w)
            run  == InnerLoop(bytes, len, 0, o + 32, <<>>, build)
            many == IF (\A j \in 1..(w - 4) : len[j] = 0) /\ len[w - 3] < 128
                    THEN ToNat(len) ELSE 2147483647
        IN  IF run.kind = "ok" THEN [run EXCEPT !.rounds = many] ELSE run

decode_abi_string_array_inner(bytes, offset, build) ==
    LET w     == build.usize_bytes
        blen  == UsizeOf(Len(bytes), w)
        first == Add(offset, UsizeOf(32, w))
    IN  IF first.overflow /\ build.overflow_checks
        THEN After(0, Panic("attempt to add with overflow"))
        ELSE IF Less(blen, first.val) THEN After(0, Ok(<<>>))
        ELSE IF Less(first.val, offset)
        THEN After(0, Panic("slice index starts after its end"))
        ELSE
        LET o   == ToNat(offset)
            len == AsUsize(parse_u256(SubSeq(bytes, o + 1, o + 32)).val, w)
        IN  InnerLoop(bytes, len, 0, o + 32, <<>>, build)

\* A pairing that fills the shorter list up with empty texts.
ZipPadded(urls, descriptions) ==
    [i \in 1..(IF Len(urls) >= Len(descriptions) THEN Len(urls) ELSE Len(descriptions)) |->
        [url |-> IF i <= Len(urls) THEN urls[i] ELSE <<>>,
         description |-> IF i <= Len(descriptions) THEN descriptions[i] ELSE <<>>]]

\* Lines 143-147: the two lists paired up to the shorter one.
Zip(urls, descriptions) ==
    [i \in 1..Min(Len(urls), Len(descriptions)) |->
        [url |-> urls[i], description |-> descriptions[i]]]

\* An ending that reports an empty list as an error.
CollectNonEmpty(urls, descriptions) ==
    IF Zip(urls, descriptions) = <<>> THEN Err("Decode") ELSE Ok(Zip(urls, descriptions))

\* Lines 143-149: the records are returned, however few.
Collect(urls, descriptions) == Ok(Zip(urls, descriptions))

\* The outcome, with the two decoded lists it was made from.
decode_abi_string_array(bytes, build) ==
    LET w            == build.usize_bytes
        urls_offset  == AsUsize(parse_u256(SubSeq(bytes, 1, 32)).val, w)
        descs_offset == AsUsize(parse_u256(SubSeq(bytes, 33, 64)).val, w)
        urls         == decode_abi_string_array_inner(bytes, urls_offset, build)
        descriptions == decode_abi_string_array_inner(bytes, descs_offset, build)
        none         == [urls |-> <<>>, descriptions |-> <<>>]
    IN  IF Len(bytes) < 64 THEN After(<<0, 0>>, Ok(<<>>) @@ none)
        ELSE IF urls.kind # "ok"
        THEN [urls EXCEPT !.rounds = <<@, 0>>] @@ none
        ELSE IF descriptions.kind # "ok"
        THEN [descriptions EXCEPT !.rounds = <<urls.rounds, @>>]
             @@ [urls |-> urls.val, descriptions |-> <<>>]
        ELSE After(<<urls.rounds, descriptions.rounds>>,
                   Collect(urls.val, descriptions.val)
                   @@ [urls |-> urls.val, descriptions |-> descriptions.val])

\* str::is_char_boundary
IsCharBoundary(s, i) ==
    i = 0 \/ i = Len(s) \/ (i < Len(s) /\ ~(s[i + 1] >= 128 /\ s[i + 1] <= 191))

\* A search that looks for the needle at the start of the text only.
ContainsAtStart(s, needle) == Len(s) >= Len(needle) /\ Take(s, Len(needle)) = needle

\* str::contains
Contains(s, needle) ==
    \E i \in 0..(Len(s) - Len(needle)) : SubSeq(s, i + 1, i + Len(needle)) = needle

EXECUTION_REVERTED ==
    Str(<<"e", "x", "e", "c", "u", "t", "i", "o", "n", " ",
          "r", "e", "v", "e", "r", "t", "e", "d">>)

\* A JSON-RPC response is: whether it parses as JSON; its "error" member
\* (absent, or an object whose "code" is a u64 or anything else and whose
\* "message" is a text or anything else); and its "result" member (absent,
\* a text, or another JSON value).
decode_endpoints_response(response, build) ==
    LET none       == [urls |-> <<>>, descriptions |-> <<>>, rounds |-> <<0, 0>>]
        error_code == IF response.error.code_is_u64 THEN response.error.code ELSE 0
        reverted   == /\ response.error.message_is_str
                      /\ Contains(response.error.message, EXECUTION_REVERTED)
        result     == response.result
        bytes      == hex_decode(Drop(result, 2))
    IN  IF ~response.json_ok THEN Err("Parse") @@ none
        ELSE IF response.has_error
        THEN IF error_code = 3 /\ reverted THEN Ok(<<>>) @@ none
             ELSE Err("Network") @@ none
        ELSE IF response.result_kind # "string" THEN Err("Parse") @@ none
        ELSE IF Len(result) < 2 \/ ~IsCharBoundary(result, 2)
        THEN Panic("byte index 2 is out of bounds or no char boundary") @@ none
        ELSE IF ~bytes.ok THEN Err("Decode") @@ none
        ELSE decode_abi_string_array(bytes.val, build)

---------------------------------------------------------------------------
(* The contract's side: the ABI encoding of the (string[], string[]) that  *)
(* getAllEndpoints returns.  Each element offset counts from the start of  *)
(* its array's offset table, as sdk/src/simple_client.rs (ethers'         *)
(* decoder, lines 145-149) reads it.                                       *)

\* A 32-byte word holding a number below 2^31.
AbiWord(n) == [i \in 1..32 |-> IF i <= 28 THEN 0 ELSE (n \div (256^(32 - i))) % 256]

\* s with zero bytes up to the next multiple of 32.
AbiPad(s) == s \o [i \in 1..((32 - (Len(s) % 32)) % 32) |-> 0]

\* A string: its length word, then its padded bytes.
AbiString(s) == AbiWord(Len(s)) \o AbiPad(s)

RECURSIVE Flatten(_)
Flatten(ss) == IF ss = <<>> THEN <<>> ELSE ss[1] \o Flatten(Tail(ss))

\* A string[]: its length, the table of element offsets, the elements.
AbiStringArray(xs) ==
    LET n     == Len(xs)
        encs  == [i \in 1..n |-> AbiString(xs[i])]
        at(i) == 32 * n + Len(Flatten(SubSeq(encs, 1, i - 1)))
    IN  AbiWord(n) \o Flatten([i \in 1..n |-> AbiWord(at(i))]) \o Flatten(encs)

\* The pair: two head words with the arrays' offsets, then the arrays.
AbiEncodePair(urls, descs) ==
    LET first == AbiStringArray(urls)
    IN  AbiWord(64) \o AbiWord(64 + Len(first)) \o first \o AbiStringArray(descs)

\* Return data laid out as client.rs lines 165-170 read it: each element
\* offset counts from the start of the buffer, the array standing at `base`.
AbsoluteStringArray(xs, base) ==
    LET n     == Len(xs)
        encs  == [i \in 1..n |-> AbiString(xs[i])]
        at(i) == base + 32 + 32 * n + Len(Flatten(SubSeq(encs, 1, i - 1)))
    IN  AbiWord(n) \o Flatten([i \in 1..n |-> AbiWord(at(i))]) \o Flatten(encs)

AbsolutePair(urls, descs) ==
    LET first == AbsoluteStringArray(urls, 64)
    IN  AbiWord(64) \o AbiWord(64 + Len(first)) \o first
        \o AbsoluteStringArray(descs, 64 + Len(first))

---------------------------------------------------------------------------
(* sdk/src/contract/abi.rs: the ABI encoder.  Lines 18 and 21 call         *)
(* encode_uint256 by its bare name; it is read as AbiEncoder's own         *)
(* encode_uint256 (lines 49-54), the only function of that name.           *)
(*                                                                         *)
(* A u64 handed to the encoder is four 16-bit limbs, most significant      *)
(* first, so that the whole range is covered and the conversion to and     *)
(* from bytes is computed.                                                 *)

U64Limb == 0..65535

\* `n as u64`, for a length n below 2^31.
U64OfNat(n) == <<0, 0, n \div 65536, n % 65536>>

\* u64::to_be_bytes: the high byte of the highest limb comes first.
to_be_bytes(value) ==
    [i \in 1..8 |-> IF i % 2 = 1 THEN value[(i + 1) \div 2] \div 256
                                 ELSE value[i \div 2] % 256]

\* u64::from_be_bytes (client.rs line 189).
from_be_bytes(arr) == [k \in 1..4 |-> 256 * arr[2 * k - 1] + arr[2 * k]]

\* A word with the value's bytes in little-endian order.
encode_uint256_le(value) ==
    [i \in 1..32 |-> IF i <= 24 THEN 0 ELSE to_be_bytes(value)[33 - i]]

\* Lines 49-54: 24 zero bytes, then the eight bytes of the value.
encode_uint256(value) ==
    LET bytes == to_be_bytes(value)
    IN  [i \in 1..32 |-> IF i <= 24 THEN 0 ELSE bytes[i - 24]]

\* An encoding that adds a whole word of padding to every string.
encode_string_padded_on(s) ==
    LET padded_length == (Len(s) \div 32 + 1) * 32
    IN  encode_uint256(U64OfNat(32)) \o encode_uint256(U64OfNat(Len(s)))
        \o [i \in 1..padded_length |-> IF i <= Len(s) THEN s[i] ELSE 0]

\* Lines 9-29.  s is the UTF-8 bytes of the text, so Len(s) is s.len().
encode_string(s) ==
    LET offset        == U64OfNat(32)
        length        == U64OfNat(Len(s))
        padded_length == ((Len(s) + 31) \div 32) * 32
        string_bytes  == [i \in 1..padded_length |-> IF i <= Len(s) THEN s[i] ELSE 0]
    IN  encode_uint256(offset) \o encode_uint256(length) \o string_bytes

ADDRESS_SIZE == 20

\* An encoder that left-pads whatever number of bytes the text decodes to.
encode_address_any_size(addr) ==
    LET addr_bytes == hex_decode(StripPrefix(addr, PREFIX_0x))
    IN  IF ~addr_bytes.ok
        THEN [ok |-> FALSE, val |-> <<>>, err |-> "Invalid address"]
        ELSE [ok |-> TRUE, err |-> "",
              val |-> [i \in 1..(32 - Min(32, Len(addr_bytes.val))) |-> 0]
                      \o Take(addr_bytes.val, Min(32, Len(addr_bytes.val)))]

\* Lines 32-46.
encode_address(addr) ==
    LET stripped   == StripPrefix(addr, PREFIX_0x)
        addr_bytes == hex_decode(stripped)
    IN  IF ~addr_bytes.ok
        THEN [ok |-> FALSE, val |-> <<>>, err |-> "Invalid address"]
        ELSE IF Len(addr_bytes.val) # ADDRESS_SIZE
        THEN [ok |-> FALSE, val |-> <<>>, err |-> "Address must be 20 bytes"]
        ELSE [ok |-> TRUE, err |-> "",
              val |-> [i \in 1..32 |-> IF i <= 12 THEN 0 ELSE addr_bytes.val[i - 12]]]

\* The sha3 crate's Keccak256::digest, which the repository calls and does
\* not define: the digests of the signatures the repository hashes.
Keccak256(signature) ==
    CASE
         signature = "addEndpoint(string)" ->
           <<0, 122, 83, 227, 242, 246, 188, 107, 153, 31, 119, 137, 253, 212, 160, 22,
             133, 2, 187, 126, 181, 118, 148, 174, 166, 114, 144, 129, 200, 176, 241, 240>>
      [] signature = "removeEndpoint(string)" ->
           <<200, 64, 146, 189, 236, 103, 9, 248, 169, 102, 15, 55, 7, 213, 12, 49,
             93, 169, 104, 214, 29, 66, 28, 177, 64, 166, 162, 178, 9, 68, 244, 76>>
      [] signature = "addAdmin(address)" ->
           <<112, 72, 2, 117, 32, 236, 186, 168, 148, 119, 100, 205, 80, 44, 92, 120,
             194, 197, 59, 189, 144, 46, 6, 177, 8, 218, 28, 189, 249, 140, 111, 196>>
      [] signature = "removeAdmin(address)" ->
           <<23, 133, 245, 60, 118, 130, 89, 167, 171, 56, 237, 103, 233, 88, 170, 176,
             117, 181, 111, 242, 6, 227, 215, 242, 158, 164, 202, 32, 61, 26, 151, 116>>
      [] signature = "getEndpointCount()" ->
           <<228, 99, 139, 132, 245, 166, 183, 137, 31, 203, 138, 12, 89, 203, 169, 223,
             36, 141, 202, 120, 138, 79, 237, 85, 145, 77, 30, 7, 172, 173, 107, 74>>
      [] signature = "getAllEndpoints()" ->
           <<90, 48, 228, 106, 103, 23, 150, 79, 179, 137, 147, 13, 189, 12, 207, 18,
             173, 26, 42, 68, 31, 194, 60, 29, 231, 25, 186, 243, 18, 228, 86, 97>>
      [] signature = "getEndpoint(uint256)" ->
           <<147, 123, 188, 74, 139, 105, 255, 182, 245, 152, 208, 62, 72, 105, 37, 112,
             20, 249, 211, 13, 92, 153, 61, 154, 36, 222, 255, 201, 211, 38, 110, 112>>
      [] signature = "hasEndpoint(string)" ->
           <<121, 189, 117, 37, 9, 92, 120, 203, 94, 129, 44, 230, 114, 31, 180, 93,
             109, 71, 69, 219, 254, 8, 79, 16, 181, 159, 212, 173, 27, 108, 124, 71>>
      [] signature = "transferOwnership(address)" ->
           <<242, 253, 227, 139, 9, 35, 48, 70, 108, 102, 31, 199, 35, 213, 40, 155,
             144, 39, 42, 62, 88, 14, 49, 135, 209, 215, 239, 120, 133, 6, 197, 87>>
      [] signature = "owner()" ->
           <<141, 165, 203, 91, 54, 231, 246, 140, 29, 46, 86, 0, 18, 32, 205, 189,
             211, 186, 38, 22, 7, 47, 113, 138, 207, 218, 74, 6, 68, 26, 128, 125>>
      [] signature = "admins(address)" ->
           <<66, 155, 98, 229, 231, 167, 86, 151, 140, 196, 146, 183, 176, 3, 126, 170,
             108, 162, 78, 24, 131, 104, 120, 167, 106, 98, 201, 46, 139, 216, 96, 173>>

SELECTOR_SIZE == 4

\* Lines 70-73.
function_selector(signature) == Take(Keccak256(signature), SELECTOR_SIZE)

---------------------------------------------------------------------------
(* sdk/src/contract.rs: method ids, TransactionData and the builders *)

Methods ==
    {"add_endpoint", "remove_endpoint", "add_admin", "remove_admin",
     "get_endpoint_count", "get_all_endpoints", "get_endpoint", "has_endpoint",
     "transfer_ownership", "owner", "admins"}

\* The signature each function of `method_id` hashes (lines 9-62).
Signature(m) ==
    CASE
         m = "add_endpoint" -> "addEndpoint(string)"
      [] m = "remove_endpoint" -> "removeEndpoint(string)"
      [] m = "add_admin" -> "addAdmin(address)"
      [] m = "remove_admin" -> "removeAdmin(address)"
      [] m = "get_endpoint_count" -> "getEndpointCount()"
      [] m = "get_all_endpoints" -> "getAllEndpoints()"
      [] m = "get_endpoint" -> "getEndpoint(uint256)"
      [] m = "has_endpoint" -> "hasEndpoint(string)"
      [] m = "transfer_ownership" -> "transferOwnership(address)"
      [] m = "owner" -> "owner()"
      [] m = "admins" -> "admins(address)"

\* Lines 6-63: the first four bytes of the digest of the method's signature.
method_id(m) ==
    LET hash == Keccak256(Signature(m))
    IN  <<hash[1], hash[2], hash[3], hash[4]>>

\* client.rs line 51: the selector get_endpoints sends as the call's data.
CLIENT_METHOD_ID == Str(<<"0", "x", "3", "6", "3", "4", "6", "6", "2", "8">>)

\* Lines 73-78.
new == [method_id |-> <<>>, data |-> <<>>]

\* A with_method that keeps three bytes of the selector.
with_method_short(id) == [method_id |-> Take(id, 3), data |-> <<>>]

\* Lines 80-85.
with_method(id) == [method_id |-> id, data |-> <<>>]

\* Lines 87-90.
encode_with_data(self, data) == [self EXCEPT !.data = data]

\* A build that puts the parameters first.
build_data_first(self) == self.data \o self.method_id

\* Lines 92-96.
build(self) == self.method_id \o self.data

\* Lines 98-101.
to_hex(self) == PREFIX_0x \o hex_encode(build(self))

\* The builders of lines 110-215.  Those that take an address return the
\* encoder's error in place of a value.
TxOk(id, data) == [ok |-> TRUE, err |-> "", val |-> [method_id |-> id, data |-> data]]

TxOfAddress(id, encoded) ==
    IF encoded.ok THEN TxOk(id, encoded.val)
    ELSE [ok |-> FALSE, err |-> encoded.err, val |-> new]

encode_add_endpoint(endpoint) == TxOk(method_id("add_endpoint"), encode_string(endpoint))

encode_remove_endpoint(endpoint) ==
    TxOk(method_id("remove_endpoint"), encode_string(endpoint))

encode_add_admin(admin) == TxOfAddress(method_id("add_admin"), encode_address(admin))

encode_remove_admin(admin) == TxOfAddress(method_id("remove_admin"), encode_address(admin))

encode_get_endpoint_count == TxOk(method_id("get_endpoint_count"), <<>>)

encode_get_all_endpoints == TxOk(method_id("get_all_endpoints"), <<>>)

encode_get_endpoint(index) == TxOk(method_id("get_endpoint"), encode_uint256(index))

encode_has_endpoint(endpoint) == TxOk(method_id("has_endpoint"), encode_string(endpoint))

encode_transfer_ownership(new_owner) ==
    TxOfAddress(method_id("transfer_ownership"), encode_address(new_owner))

encode_owner == TxOk(method_id("owner"), <<>>)

encode_admins(admin) == TxOfAddress(method_id("admins"), encode_address(admin))

---------------------------------------------------------------------------
(* cli/src/config.rs and cli/src/main.rs: the wallet files and the         *)
(* commands that read and write them.  The toml crate is stood in for by   *)
(* what it round-trips: wallet.toml is the list of the entries written in  *)
(* it and whether its text still parses.  Of config.toml the model keeps   *)
(* whether it exists and its active_wallet, of rust/config.toml whether    *)
(* its directory and the file exist and its deployer section.  The         *)
(* network questions of init_cli and what deploy_contract does after it    *)
(* has its signer (lines 706 on) touch none of these files.                *)

WalletEntry(name, address, encrypted_key) ==
    [name |-> name, address |-> address, encrypted_key |-> encrypted_key]

\* config.rs lines 94-102, of the file as it is on disk.
WalletsFile_load(file) ==
    IF ~file.exists THEN Ok([wallets |-> <<>>])
    ELSE IF ~file.parses THEN Err("Failed to parse wallet.toml")
    ELSE Ok([wallets |-> file.wallets])

\* config.rs lines 104-115: the file after fs::write.
WalletsFile_save(self) == [exists |-> TRUE, parses |-> TRUE, wallets |-> self.wallets]

\* An add_wallet that replaces the entry of the same name, if there is one.
add_wallet_by_name(self, name, address, encrypted_key) ==
    IF \E i \in 1..Len(self.wallets) : self.wallets[i].name = name
    THEN [self EXCEPT !.wallets =
             [i \in 1..Len(@) |-> IF @[i].name = name
                                  THEN WalletEntry(name, address, encrypted_key)
                                  ELSE @[i]]]
    ELSE [self EXCEPT !.wallets = Append(@, WalletEntry(name, address, encrypted_key))]

\* config.rs lines 117-124.
add_wallet(self, name, address, encrypted_key) ==
    [self EXCEPT !.wallets = Append(@, WalletEntry(name, address, encrypted_key))]

\* config.rs lines 127-129: None is <<>>, Some(w) is <<w>>.
get_wallet(self, name) ==
    LET hits == {i \in 1..Len(self.wallets) : self.wallets[i].name = name}
    IN  IF hits = {} THEN <<>>
        ELSE <<self.wallets[CHOOSE i \in hits : \A j \in hits : i <= j]>>

\* main.rs line 164
MIN_PASSWORD == 8

\* LocalWallet::from_str and address() of the ethers crate, stood in for
\* by a function of the key's bytes: "0x" and 20 bytes of their digest.
AddressOf(private_key) ==
    PREFIX_0x \o hex_encode(Take(Sha256(hex_decode(Drop(private_key, 2)).val), ADDRESS_SIZE))

\* main.rs lines 147-170, 331-362 and 617-647: the key and the password are
\* asked for, the key is encrypted and its address derived.
read_key(private_key, password, confirm_password, salt, nonce) ==
    LET key       == IF Len(private_key) >= 2 /\ Take(private_key, 2) = PREFIX_0x
                     THEN private_key ELSE PREFIX_0x \o private_key
        encrypted == encrypt_private_key(key, password, salt, nonce)
    IN  IF password # confirm_password THEN Err("Passwords do not match")
        ELSE IF Len(password) < MIN_PASSWORD
        THEN Err("Password must be at least 8 characters")
        ELSE IF ~encrypted.ok THEN Err(encrypted.err)
        ELSE Ok([private_key |-> key, password |-> password,
                 encrypted_key |-> encrypted.val, address |-> AddressOf(key)])

\* main.rs lines 198-236; choice is the number typed, 0 for no number.
select_wallet_interactive(file, choice) ==
    LET loaded  == WalletsFile_load(file)
        wallets == loaded.val.wallets
    IN  IF loaded.kind # "ok" THEN Err(loaded.err)
        ELSE IF wallets = <<>>
        THEN Err("No wallets found. Run 'init' or 'add-wallet' first.")
        ELSE IF Len(wallets) = 1 THEN Ok(wallets[1])
        ELSE IF choice < 1 \/ choice > Len(wallets) THEN Err("Invalid selection")
        ELSE Ok(wallets[choice])

---------------------------------------------------------------------------
(* What the encoder and the threads hold before any call *)

\* No encoding function has been called.
NoEncoderCall == [op |-> "none", arg |-> <<>>, out |-> <<>>, of |-> <<>>]

\* No TransactionData has been constructed.
NoOrigin == [by |-> "none", arg |-> <<>>, ok |-> FALSE, err |-> ""]

Threads == {1, 2}

\* A thread that has made no call; amid says whether another thread was in
\* the middle of a call when this one began.
NoThreadCall == [op |-> "none", arg |-> <<>>, amid |-> FALSE]

Terminals == {1, 2}

\* wallet.toml and config.toml of a fresh installation: not there.
NoWalletFile == [exists |-> FALSE, parses |-> FALSE, wallets |-> <<>>]

NoConfigFile == [exists |-> FALSE, active_wallet |-> <<>>]

\* A terminal that has run no wallet-adding command.  Of a command: the
\* entry it adds, the list it holds in memory, the entries wallet.toml
\* held when it loaded the file, whether no other command has written the
\* file since, and whether another command was between its load and its
\* save when this one began.
NoCommand ==
    [op |-> "none", pc |-> "idle", entry |-> <<>>, wallets |-> <<>>, before |-> <<>>,
     alone |-> TRUE, amid |-> FALSE, kind |-> "none", err |-> ""]

NoImport == [kind |-> "none", err |-> "", val |-> <<>>]

NoDeploy == [kind |-> "none", err |-> "", val |-> <<>>, after |-> <<>>, password |-> <<>>]

NoLookup == [name |-> <<>>, at |-> 0, found |-> <<>>]

\* The locals of a call before its first statement.
NoLocals ==
    [result |-> [ok |-> TRUE, val |-> <<>>, err |-> ""],
     data |-> [ok |-> FALSE, err |-> "", val |-> <<>>],
     salt |-> <<>>, nonce |-> <<>>, key |-> <<>>, ciphertext |-> <<>>,
     plaintext |-> [ok |-> FALSE, val |-> <<>>],
     urls |-> <<>>, descriptions |-> <<>>]

---------------------------------------------------------------------------
(* The decoder as the client drives it: get_endpoints (lines 46-68) makes  *)
(* the call, the response arrives (whole, cut short or with a word         *)
(* changed), and decode_endpoints_response decodes it.                     *)

MaxElems == 2   \* elements of each array the contract returns

INVALID_UTF8 == <<255>>

\* The strings that may stand at index i of an array: a text naming the
\* array and the index ("u1", "d2") or, among the urls, bytes that are not
\* UTF-8.
ElemsAt(letter, i) ==
    {<<CharCode(letter), 48 + i>>} \cup (IF letter = "u" THEN {INVALID_UTF8} ELSE {})

Arrays(letter) ==
    UNION {{xs \in [1..n -> UNION {ElemsAt(letter, i) : i \in 1..n}] :
               \A i \in 1..n : xs[i] \in ElemsAt(letter, i)} : n \in 0..MaxElems}

\* Values a changed word may hold: 2^64 - 1, 2^64 - 32 and 2^32 + 64.
WildValues ==
    {<<255, 255, 255, 255, 255, 255, 255, 255>>,
     <<255, 255, 255, 255, 255, 255, 255, 224>>,
     <<0, 0, 0, 1, 0, 0, 0, 64>>}

NoError == [code_is_u64 |-> FALSE, code |-> 0, message_is_str |-> FALSE, message |-> <<>>]

\* A response carrying the text `result`.
ResultResponse(result) ==
    [json_ok |-> TRUE, has_error |-> FALSE, error |-> NoError,
     result_kind |-> "string", result |-> result]

\* Error objects a node may send.
ErrorObjects ==
    {[code_is_u64 |-> TRUE, code |-> 3, message_is_str |-> TRUE, message |-> EXECUTION_REVERTED],
     [code_is_u64 |-> TRUE, code |-> 3, message_is_str |-> TRUE,
      message |-> EXECUTION_REVERTED \o Str(<<":", " ", "n", "o">>)],
     [code_is_u64 |-> TRUE, code |-> 3, message_is_str |-> TRUE,
      message |-> Str(<<"n", "o", ":", " ">>) \o EXECUTION_REVERTED],
     [code_is_u64 |-> TRUE, code |-> 3, message_is_str |-> TRUE, message |-> Str(<<"n", "o">>)],
     [code_is_u64 |-> TRUE, code |-> 3, message_is_str |-> FALSE, message |-> <<>>],
     [code_is_u64 |-> TRUE, code |-> 2, message_is_str |-> TRUE, message |-> EXECUTION_REVERTED],
     [code_is_u64 |-> FALSE, code |-> 0, message_is_str |-> TRUE, message |-> EXECUTION_REVERTED]}

\* Responses that carry no return data: not JSON, no result, a result that
\* is no text, and result texts that are no 0x-prefixed hex.
OtherResponses ==
    {[ResultResponse(<<>>) EXCEPT !.json_ok = FALSE],
     [ResultResponse(<<>>) EXCEPT !.result_kind = "absent"],
     [ResultResponse(<<>>) EXCEPT !.result_kind = "number"]}
    \cup {ResultResponse(t) :
            t \in {<<>>, Str(<<"0">>), PREFIX_0x, PREFIX_0x \o Str(<<"0">>),
                   PREFIX_0x \o Str(<<"g", "g">>), <<48, 195, 169>>}}

NoOutcome ==
    [kind |-> "none", val |-> <<>>, err |-> "", urls |-> <<>>, descriptions |-> <<>>,
     rounds |-> <<0, 0>>]

\* eth_call returns the contract's data as hex text.
Respond ==
    /\ d_pc = "idle"
    /\ \E urls \in Arrays("u"), descs \in Arrays("d"), prefix \in {PREFIX_0x, <<>>} :
          /\ d_urls' = urls
          /\ d_descs' = descs
          /\ d_response' = ResultResponse(prefix \o hex_encode(AbiEncodePair(urls, descs)))
          /\ d_damage' = IF prefix = <<>> THEN "bare" ELSE "none"
    /\ d_pc' = "received"
    /\ UNCHANGED <<d_out, vault_vars, encoder_vars, thread_vars, cli_vars>>

\* eth_call returns data whose element offsets count from the start of the
\* buffer, as a contract that is not PolyEndpoint may lay it out.
RespondAbsolute ==
    /\ d_pc = "idle"
    /\ \E urls \in Arrays("u"), descs \in Arrays("d") :
          /\ d_urls' = urls
          /\ d_descs' = descs
          /\ d_response' = ResultResponse(PREFIX_0x \o hex_encode(AbsolutePair(urls, descs)))
    /\ d_damage' = "absolute"
    /\ d_pc' = "received"
    /\ UNCHANGED <<d_out, vault_vars, encoder_vars, thread_vars, cli_vars>>

\* Return data a response may carry beside its error object: the encoding
\* of (["u1"], ["d1"]).
RESULT_BESIDE_ERROR ==
    PREFIX_0x \o hex_encode(AbiEncodePair(<<Str(<<"u", "1">>)>>, <<Str(<<"d", "1">>)>>))

\* eth_call returns an error object, alone or beside a result.
RespondError ==
    /\ d_pc = "idle"
    /\ \E e \in ErrorObjects, result \in {<<>>, RESULT_BESIDE_ERROR} :
          d_response' = [ResultResponse(result) EXCEPT
                            !.has_error = TRUE, !.error = e,
                            !.result_kind = IF result = <<>> THEN "absent" ELSE "string"]
    /\ d_damage' = "foreign"
    /\ d_pc' = "received"
    /\ UNCHANGED <<d_urls, d_descs, d_out, vault_vars, encoder_vars, thread_vars, cli_vars>>

\* The node answers with something else.
RespondOther ==
    /\ d_pc = "idle"
    /\ \E r \in OtherResponses : d_response' = r
    /\ d_damage' = "foreign"
    /\ d_pc' = "received"
    /\ UNCHANGED <<d_urls, d_descs, d_out, vault_vars, encoder_vars, thread_vars, cli_vars>>

\* The return data arrives cut short, on a word boundary or a byte after.
Cut ==
    /\ d_pc = "received"
    /\ d_damage = "none"
    /\ LET size == (Len(d_response.result) - 2) \div 2
       IN  \E k \in 0..(size \div 32), r \in {0, 1} :
              /\ 32 * k + r < size
              /\ d_response' = [d_response EXCEPT !.result = Take(@, 2 + 2 * (32 * k + r))]
    /\ d_damage' = "cut"
    /\ UNCHANGED <<d_pc, d_urls, d_descs, d_out, vault_vars, encoder_vars, thread_vars, cli_vars>>

\* One word of the return data arrives holding another value.
Corrupt ==
    /\ d_pc = "received"
    /\ d_damage = "none"
    /\ LET size == (Len(d_response.result) - 2) \div 2
       IN  \E k \in 0..((size \div 32) - 1), v \in WildValues :
              d_response' = [d_response EXCEPT !.result =
                                Take(@, 2 + 64 * k)
                                \o hex_encode([i \in 1..24 |-> 0] \o v)
                                \o Drop(@, 2 + 64 * (k + 1))]
    /\ d_damage' = "corrupt"
    /\ UNCHANGED <<d_pc, d_urls, d_descs, d_out, vault_vars, encoder_vars, thread_vars, cli_vars>>

\* get_endpoints line 65, in any build of the client.
Decode ==
    /\ d_pc = "received"
    /\ \E target \in Builds : d_out' = decode_endpoints_response(d_response, target)
    /\ d_pc' = "done"
    /\ UNCHANGED <<d_urls, d_descs, d_response, d_damage, vault_vars, encoder_vars, thread_vars, cli_vars>>

NextDecoder ==
    Respond \/ RespondAbsolute \/ RespondError \/ RespondOther \/ Cut \/ Corrupt \/ Decode

---------------------------------------------------------------------------
(* The vault as the CLI drives it: a secret is encrypted under a password, *)
(* the blob rests in wallet.toml or config.toml (where it may be damaged), *)
(* and is later handed to decrypt_private_key with a password.             *)

MaxKeyChars == 4   \* hex digits of a secret
MaxDraws == 2      \* values the random source may draw for salt and nonce

KeyChars == {"1", "B"}

RECURSIVE SeqsUpTo(_, _)
SeqsUpTo(S, n) ==
    IF n = 0 THEN {<<>>}
    ELSE LET shorter == SeqsUpTo(S, n - 1)
         IN  shorter \cup {<<x>> \o t : x \in S, t \in {u \in shorter : Len(u) = n - 1}}

\* Secrets: digits of either case, of even and odd length, bare and prefixed;
\* and two that are not hex.
Secrets ==
    LET digits == {Str(cs) : cs \in SeqsUpTo(KeyChars, MaxKeyChars)}
    IN  digits \cup {PREFIX_0x \o d : d \in digits}
        \cup {Str(<<"0", "X", "1", "B">>), Str(<<"g", "1">>)}

Passwords == {<<>>, Str(<<"p", "w">>), Str(<<"p", "W", "1">>)}

Salts  == {[i \in 1..SALT_SIZE |-> (k * i + 37 * (k - 1)) % 256] : k \in 1..MaxDraws}
Nonces == {[i \in 1..NONCE_SIZE |-> (k * k * i + 101 * k) % 256] : k \in 1..MaxDraws}

\* Texts that no encryption produced.
ForeignBlobs ==
    {<<>>, Str(<<"g", "g">>), Str(<<"a", "b", "1">>),
     PREFIX_0x \o hex_encode([i \in 1..(SALT_SIZE + NONCE_SIZE + TAG_SIZE) |-> i]),
     hex_encode([i \in 1..(SALT_SIZE + NONCE_SIZE - 1) |-> i]),
     hex_encode([i \in 1..(SALT_SIZE + NONCE_SIZE) |-> i]),
     hex_encode([i \in 1..(SALT_SIZE + NONCE_SIZE + TAG_SIZE) |-> i])}

\* The part of a blob that byte i (from 1) of its decoded form lies in.
Region(i, n) ==
    IF i <= SALT_SIZE THEN "salt"
    ELSE IF i <= SALT_SIZE + NONCE_SIZE THEN "nonce"
    ELSE IF i <= n - TAG_SIZE THEN "ciphertext"
    ELSE "tag"

NoCall == [ok |-> FALSE, val |-> <<>>, err |-> "not called"]

\* Nothing has been called yet.
Init ==
    /\ d_pc = "idle"
    /\ d_urls = <<>>
    /\ d_descs = <<>>
    /\ d_response = ResultResponse(<<>>)
    /\ d_damage = "none"
    /\ d_out = NoOutcome
    /\ v_pc = "idle"
    /\ v_key = <<>>
    /\ v_password = <<>>
    /\ v_enc = NoCall
    /\ v_blob = <<>>
    /\ v_damage = "none"
    /\ v_dec = NoCall
    /\ c_call = NoEncoderCall
    /\ t_tx = new
    /\ t_origin = NoOrigin
    /\ t_born = <<>>
    /\ t_built = <<>>
    /\ t_hex = <<>>
    /\ t_ops = 0
    /\ th_call = [t \in Threads |-> NoThreadCall]
    /\ th_pc = [t \in Threads |-> 0]
    /\ th_buf = [t \in Threads |-> NoLocals]
    /\ th_out = [t \in Threads |-> <<>>]
    /\ f_wallet = NoWalletFile
    /\ f_config = NoConfigFile
    /\ f_rust = [dir |-> FALSE, exists |-> FALSE, encrypted_key |-> <<>>, address |-> <<>>]
    /\ k_proc = [p \in Terminals |-> NoCommand]
    /\ k_import = NoImport
    /\ k_deploy = NoDeploy
    /\ k_log = <<>>
    /\ k_runs = 0
    /\ m_wallets = [wallets |-> <<>>]
    /\ m_calls = <<>>
    /\ m_got = NoLookup

\* A caller of encrypt_private_key (the test of lines 77-89; add_wallet,
\* init_cli and import_key of main.rs): the blob it returns is stored.
Encrypt ==
    /\ v_pc = "idle"
    /\ \E key \in Secrets, password \in Passwords, salt \in Salts, nonce \in Nonces :
          LET frame == encrypt_private_key(key, password, salt, nonce)
          IN  /\ v_key' = key
              /\ v_password' = password
              /\ v_enc' = frame
              /\ v_blob' = frame.val
              /\ v_pc' = IF frame.ok THEN "stored" ELSE "done"
    /\ UNCHANGED <<v_damage, v_dec, decoder_vars, encoder_vars, thread_vars, cli_vars>>

\* The stored blob was written by something else.
Foreign ==
    /\ v_pc = "idle"
    /\ \E s \in ForeignBlobs : v_blob' = s
    /\ v_damage' = "foreign"
    /\ v_pc' = "stored"
    /\ UNCHANGED <<v_key, v_password, v_enc, v_dec, decoder_vars, encoder_vars, thread_vars, cli_vars>>

\* One byte of the stored blob changes.
Tamper ==
    /\ v_pc = "stored"
    /\ v_damage = "none"
    /\ LET data == hex_decode(v_blob).val
       IN  \E i \in 1..Len(data) : \E b \in {(data[i] + 1 + 127 * (i % 2)) % 256} :
              /\ v_blob' = hex_encode([data EXCEPT ![i] = b])
              /\ v_damage' = Region(i, Len(data))
    /\ UNCHANGED <<v_pc, v_key, v_password, v_enc, v_dec, decoder_vars, encoder_vars, thread_vars, cli_vars>>

\* The stored blob loses its end.
Truncate ==
    /\ v_pc = "stored"
    /\ v_damage = "none"
    /\ \E n \in {0, 2 * (SALT_SIZE + NONCE_SIZE) - 2, 2 * (SALT_SIZE + NONCE_SIZE) - 1,
                 2 * (SALT_SIZE + NONCE_SIZE), Len(v_blob) - 2, Len(v_blob) - 1} :
          /\ n < Len(v_blob)
          /\ v_blob' = Take(v_blob, n)
    /\ v_damage' = "truncated"
    /\ UNCHANGED <<v_pc, v_key, v_password, v_enc, v_dec, decoder_vars, encoder_vars, thread_vars, cli_vars>>

\* A caller of decrypt_private_key (the test; get_password_and_wallet and
\* deploy_contract of main.rs) hands it the stored text and a password.
Decrypt ==
    /\ v_pc = "stored"
    /\ \E password \in Passwords : v_dec' = decrypt_private_key(v_blob, password) @@ [password |-> password]
    /\ v_pc' = "done"
    /\ UNCHANGED <<v_key, v_password, v_enc, v_blob, v_damage, decoder_vars, encoder_vars, thread_vars, cli_vars>>

NextVault == Encrypt \/ Foreign \/ Tamper \/ Truncate \/ Decrypt

SpecVault == Init /\ [][NextVault]_vars

SpecDecoder == Init /\ [][NextDecoder]_vars

---------------------------------------------------------------------------
(* The encoder as a caller drives it: the encoding functions are called    *)
(* on texts, addresses and numbers, and TransactionData values are         *)
(* constructed, built and printed.                                         *)

MaxWords == 2
MaxOps == 3

\* Text lengths around each multiple of 32.
TextLengths == {0, 1} \cup {32 * k + d - 1 : k \in 1..MaxWords, d \in 0..2}

\* Texts of a length: ASCII, or starting with a two-byte character.
TextsOf(n) ==
    {[i \in 1..n |-> 97]}
    \cup (IF n >= 2 THEN {<<195, 169>> \o [i \in 1..(n - 2) |-> 97]} ELSE {})

Texts == UNION {TextsOf(n) : n \in TextLengths}

\* Address texts: digits of one kind, as many as 20 bytes take or a few
\* more or fewer, perhaps with one character that is no hex digit, after
\* no prefix, "0x", "0X" or "0x0x".
AddressLengths == {0, 1} \cup {2 * ADDRESS_SIZE + d - 2 : d \in 0..4}

AddressBodies ==
    {[i \in 1..n |-> IF i = bad THEN CharCode("g") ELSE CharCode(c)] :
        n \in AddressLengths, bad \in {0, 1, 40}, c \in {"a", "B"}}

AddressPrefixes ==
    {<<>>, PREFIX_0x, Str(<<"0", "X">>), PREFIX_0x \o PREFIX_0x}

AddressTexts == {pre \o body : pre \in AddressPrefixes, body \in AddressBodies}

LimbValues == {0, 123, 256, 65535}

U64Values == {<<a, b, c, d>> : a \in LimbValues, b \in LimbValues,
                               c \in LimbValues, d \in LimbValues}

\* A TransactionData value is in hand.
HasTx == t_origin.ok

\* Nothing has been constructed, successfully or not.
EncoderIdle == t_origin.by = "none"

tx_vars == <<t_tx, t_origin, t_born, t_built, t_hex, t_ops>>

\* The record of a call of an encoding function.
Call(op, arg, out, of) == [op |-> op, arg |-> arg, out |-> out, of |-> of]

EncodeString ==
    /\ EncoderIdle
    /\ \E s \in Texts : c_call' = Call("encode_string", s, encode_string(s), <<>>)
    /\ UNCHANGED <<tx_vars, vault_vars, decoder_vars, thread_vars, cli_vars>>

EncodeAddress ==
    /\ EncoderIdle
    /\ \E addr \in AddressTexts :
          c_call' = Call("encode_address", addr, encode_address(addr), <<>>)
    /\ UNCHANGED <<tx_vars, vault_vars, decoder_vars, thread_vars, cli_vars>>

EncodeUint256 ==
    /\ EncoderIdle
    /\ \E value \in U64Values :
          c_call' = Call("encode_uint256", value, encode_uint256(value), <<>>)
    /\ UNCHANGED <<tx_vars, vault_vars, decoder_vars, thread_vars, cli_vars>>

\* The word just encoded is handed to the decoder's parse_u256.
ParseU256 ==
    /\ EncoderIdle
    /\ c_call.op = "encode_uint256"
    /\ c_call' = Call("parse_u256", c_call.out, parse_u256(c_call.out), c_call.arg)
    /\ UNCHANGED <<tx_vars, vault_vars, decoder_vars, thread_vars, cli_vars>>

\* What may stand in bytes 0..24 of a word handed to parse_u256.
HighParts ==
    {[i \in 1..24 |-> 0], [i \in 1..24 |-> 255], [i \in 1..24 |-> IF i = 1 THEN 1 ELSE 0]}

\* Slices handed to parse_u256: a word with any high part, the same with a
\* byte more, or fewer than 32 bytes of it.
SliceLengths == {0, 8, 31, 32, 33}

\* Values of bytes 24..32: zero, 64, one with distinct limbs, 2^64 - 1.
SliceValues ==
    {<<0, 0, 0, 0>>, <<0, 0, 0, 64>>, <<123, 256, 65535, 123>>,
     <<65535, 65535, 65535, 65535>>}

\* parse_u256 is called on a slice whose bytes 24..32, where it has them,
\* hold `value`.
ParseSlice ==
    /\ EncoderIdle
    /\ \E high \in HighParts, value \in SliceValues, n \in SliceLengths :
          LET bytes == Take(high \o to_be_bytes(value) \o <<7>>, n)
          IN  c_call' = Call("parse_u256 of a slice", bytes, parse_u256(bytes), value)
    /\ UNCHANGED <<tx_vars, vault_vars, decoder_vars, thread_vars, cli_vars>>

FunctionSelector ==
    /\ EncoderIdle
    /\ \E m \in Methods :
          c_call' = Call("function_selector", Signature(m),
                         function_selector(Signature(m)), m)
    /\ UNCHANGED <<tx_vars, vault_vars, decoder_vars, thread_vars, cli_vars>>

MethodId ==
    /\ EncoderIdle
    /\ \E m \in Methods : c_call' = Call("method_id", m, method_id(m), m)
    /\ UNCHANGED <<tx_vars, vault_vars, decoder_vars, thread_vars, cli_vars>>

\* get_endpoints (client.rs lines 46-68) puts its selector in the payload.
GetEndpointsPayload ==
    /\ EncoderIdle
    /\ c_call' = Call("get_endpoints", "getAllEndpoints()", CLIENT_METHOD_ID,
                      "get_all_endpoints")
    /\ UNCHANGED <<tx_vars, vault_vars, decoder_vars, thread_vars, cli_vars>>

\* A constructor or builder has returned `made`.
Constructed(by, arg, made) ==
    /\ t_tx' = made.val
    /\ t_origin' = [by |-> by, arg |-> arg, ok |-> made.ok, err |-> made.err]
    /\ t_born' = IF made.ok THEN <<build(made.val)>> ELSE <<>>
    /\ c_call' = NoEncoderCall
    /\ UNCHANGED <<t_built, t_hex, t_ops>>
    /\ UNCHANGED <<vault_vars, decoder_vars, thread_vars, cli_vars>>

New ==
    /\ EncoderIdle
    /\ Constructed("new", <<>>, TxOk(new.method_id, new.data))

WithMethod ==
    /\ EncoderIdle
    /\ \E m \in Methods :
          Constructed("with_method", <<>>,
                      TxOk(with_method(method_id(m)).method_id, with_method(method_id(m)).data))

EncodeAddEndpoint ==
    /\ EncoderIdle
    /\ \E s \in Texts : Constructed("encode_add_endpoint", s, encode_add_endpoint(s))

EncodeRemoveEndpoint ==
    /\ EncoderIdle
    /\ \E s \in Texts : Constructed("encode_remove_endpoint", s, encode_remove_endpoint(s))

EncodeHasEndpoint ==
    /\ EncoderIdle
    /\ \E s \in Texts : Constructed("encode_has_endpoint", s, encode_has_endpoint(s))

EncodeAddAdmin ==
    /\ EncoderIdle
    /\ \E a \in AddressTexts : Constructed("encode_add_admin", a, encode_add_admin(a))

EncodeRemoveAdmin ==
    /\ EncoderIdle
    /\ \E a \in AddressTexts : Constructed("encode_remove_admin", a, encode_remove_admin(a))

EncodeTransferOwnership ==
    /\ EncoderIdle
    /\ \E a \in AddressTexts :
          Constructed("encode_transfer_ownership", a, encode_transfer_ownership(a))

EncodeAdmins ==
    /\ EncoderIdle
    /\ \E a \in AddressTexts : Constructed("encode_admins", a, encode_admins(a))

EncodeGetEndpointCount ==
    /\ EncoderIdle
    /\ Constructed("encode_get_endpoint_count", <<>>, encode_get_endpoint_count)

EncodeGetAllEndpoints ==
    /\ EncoderIdle
    /\ Constructed("encode_get_all_endpoints", <<>>, encode_get_all_endpoints)

EncodeOwner ==
    /\ EncoderIdle
    /\ Constructed("encode_owner", <<>>, encode_owner)

EncodeGetEndpoint ==
    /\ EncoderIdle
    /\ \E index \in {U64OfNat(0), U64OfNat(123), <<65535, 65535, 65535, 65535>>} :
          Constructed("encode_get_endpoint", index, encode_get_endpoint(index))

\* The parameter bytes a caller may hand to encode_with_data.
DataChoices == {<<>>, <<1>>, encode_uint256(U64OfNat(7))}

EncodeWithData ==
    /\ HasTx
    /\ t_ops < MaxOps
    /\ \E data \in DataChoices : t_tx' = encode_with_data(t_tx, data)
    /\ t_ops' = t_ops + 1
    /\ UNCHANGED <<c_call, t_origin, t_born, t_built, t_hex>>
    /\ UNCHANGED <<vault_vars, decoder_vars, thread_vars, cli_vars>>

Build ==
    /\ HasTx
    /\ t_ops < MaxOps
    /\ t_built' = <<[of |-> t_tx, out |-> build(t_tx)]>>
    /\ t_ops' = t_ops + 1
    /\ UNCHANGED <<c_call, t_tx, t_origin, t_born, t_hex>>
    /\ UNCHANGED <<vault_vars, decoder_vars, thread_vars, cli_vars>>

ToHex ==
    /\ HasTx
    /\ t_ops < MaxOps
    /\ t_hex' = <<[of |-> t_tx, out |-> to_hex(t_tx)]>>
    /\ t_ops' = t_ops + 1
    /\ UNCHANGED <<c_call, t_tx, t_origin, t_born, t_built>>
    /\ UNCHANGED <<vault_vars, decoder_vars, thread_vars, cli_vars>>

NextEncoder ==
    \/ EncodeString \/ EncodeAddress \/ EncodeUint256 \/ ParseU256 \/ ParseSlice
    \/ FunctionSelector \/ MethodId \/ GetEndpointsPayload
    \/ New \/ WithMethod
    \/ EncodeAddEndpoint \/ EncodeRemoveEndpoint \/ EncodeHasEndpoint
    \/ EncodeAddAdmin \/ EncodeRemoveAdmin \/ EncodeTransferOwnership \/ EncodeAdmins
    \/ EncodeGetEndpointCount \/ EncodeGetAllEndpoints \/ EncodeOwner \/ EncodeGetEndpoint
    \/ EncodeWithData \/ Build \/ ToHex

SpecEncoder == Init /\ [][NextEncoder]_vars

---------------------------------------------------------------------------
(* Concurrent callers.  Each of two threads calls one core operation and   *)
(* runs it statement by statement, interleaved with the other.  The        *)
(* operations are associated functions without a receiver, or take &self:  *)
(* every value they write is a local of the call (abi.rs line 15,          *)
(* contract.rs line 93, crypto.rs lines 14-37 and 44-67, client.rs lines   *)
(* 158-160); no static or global is declared anywhere in the sources.      *)

NATIVE == [usize_bytes |-> 8, overflow_checks |-> FALSE]

\* The calls a thread may make.
ThreadCalls ==
    LET salt  == [i \in 1..SALT_SIZE |-> i]
        nonce == [i \in 1..NONCE_SIZE |-> 2 * i]
        pw    == Str(<<"p", "w">>)
        blob  == encrypt_private_key(Str(<<"1", "B">>), pw, salt, nonce).val
        call(op, arg) == [op |-> op, arg |-> arg, amid |-> FALSE]
    IN  {call("encode_string", Str(<<"a">>)),
         call("encode_string", <<195, 169>> \o [i \in 1..31 |-> 97]),
         call("encode_uint256", U64OfNat(123)),
         call("encode_uint256", <<65535, 0, 256, 123>>),
         call("encode_address", PREFIX_0x \o [i \in 1..40 |-> CharCode("a")]),
         call("encode_address", [i \in 1..39 |-> CharCode("B")]),
         call("to_hex", encode_owner.val),
         call("to_hex", encode_add_endpoint(Str(<<"a">>)).val),
         call("decode_abi_string_array", AbiEncodePair(<<>>, <<>>)),
         call("decode_abi_string_array",
              AbiEncodePair(<<Str(<<"u", "1">>)>>, <<Str(<<"d", "1">>)>>)),
         call("encrypt_private_key",
              [key |-> Str(<<"1", "B">>), password |-> pw, salt |-> salt, nonce |-> nonce]),
         call("encrypt_private_key",
              [key |-> Str(<<"g">>), password |-> <<>>, salt |-> nonce \o Take(salt, 4),
               nonce |-> Take(salt, NONCE_SIZE)]),
         call("decrypt_private_key", [encrypted |-> blob, password |-> pw]),
         call("decrypt_private_key", [encrypted |-> blob, password |-> <<>>])}

\* The number of statements a call runs before it returns.
StepsOf(op) ==
    CASE op = "encode_string" -> 3
      [] op = "encode_uint256" -> 2
      [] op = "encode_address" -> 2
      [] op = "to_hex" -> 3
      [] op = "decode_abi_string_array" -> 3
      [] op = "encrypt_private_key" -> 6
      [] op = "decrypt_private_key" -> 5
      [] op = "none" -> 0

Failed(e) == [ok |-> FALSE, val |-> <<>>, err |-> e]

\* Key::from_slice and Nonce::from_slice take exactly 32 and 12 bytes.
CipherReady(f) == Len(f.key) = DIGEST_SIZE /\ Len(f.nonce) = NONCE_SIZE

\* abi.rs lines 15-28.
StepEncodeString(s, k, f) ==
    CASE k = 1 -> [f EXCEPT !.result.val = @ \o encode_uint256(U64OfNat(32))]
      [] k = 2 -> [f EXCEPT !.result.val = @ \o encode_uint256(U64OfNat(Len(s)))]
      [] k = 3 -> [f EXCEPT !.result.val =
                      @ \o [i \in 1..(((Len(s) + 31) \div 32) * 32) |->
                              IF i <= Len(s) THEN s[i] ELSE 0]]

\* abi.rs lines 50-53.
StepEncodeUint256(value, k, f) ==
    CASE k = 1 -> [f EXCEPT !.data.val = to_be_bytes(value),
                            !.result.val = [i \in 1..32 |-> 0]]
      [] k = 2 -> [f EXCEPT !.result.val =
                      [i \in 1..Len(@) |->
                          IF i > 24 /\ i - 24 <= Len(f.data.val) THEN f.data.val[i - 24]
                          ELSE @[i]]]

\* abi.rs lines 33-45.
StepEncodeAddress(addr, k, f) ==
    CASE k = 1 -> [f EXCEPT !.data = hex_decode(StripPrefix(addr, PREFIX_0x))]
      [] k = 2 -> [f EXCEPT !.result =
                      IF ~f.data.ok THEN Failed("Invalid address")
                      ELSE IF Len(f.data.val) # ADDRESS_SIZE
                      THEN Failed("Address must be 20 bytes")
                      ELSE [ok |-> TRUE, err |-> "",
                            val |-> [i \in 1..12 |-> 0] \o f.data.val]]

\* contract.rs lines 93-95 and 99-100.
StepToHex(self, k, f) ==
    CASE k = 1 -> [f EXCEPT !.result.val = self.method_id]
      [] k = 2 -> [f EXCEPT !.result.val = @ \o self.data]
      [] k = 3 -> [f EXCEPT !.result.val = PREFIX_0x \o hex_encode(@)]

\* client.rs lines 140-149, on a buffer of at least 64 bytes.
StepDecode(bytes, k, f) ==
    CASE k = 1 -> [f EXCEPT !.urls =
                      decode_abi_string_array_inner(
                          bytes, AsUsize(parse_u256(SubSeq(bytes, 1, 32)).val, 8), NATIVE).val]
      [] k = 2 -> [f EXCEPT !.descriptions =
                      decode_abi_string_array_inner(
                          bytes, AsUsize(parse_u256(SubSeq(bytes, 33, 64)).val, 8), NATIVE).val]
      [] k = 3 -> [f EXCEPT !.result =
                      [ok |-> TRUE, err |-> "", val |-> Zip(f.urls, f.descriptions)]]

\* crypto.rs lines 14-39.
StepEncrypt(a, k, f) ==
    CASE k = 1 -> [f EXCEPT !.salt = a.salt]
      [] k = 2 -> [f EXCEPT !.key = DeriveKey(a.password, f.salt)]
      [] k = 3 -> [f EXCEPT !.nonce = a.nonce]
      [] k = 4 -> [f EXCEPT !.data = hex_decode(StripPrefix(a.key, PREFIX_0x)),
                            !.result = IF hex_decode(StripPrefix(a.key, PREFIX_0x)).ok THEN @
                                       ELSE Failed("Failed to decode private key")]
      [] k = 5 -> IF ~f.result.ok THEN f
                  ELSE IF ~CipherReady(f) THEN [f EXCEPT !.result = Failed("panic")]
                  ELSE [f EXCEPT !.ciphertext = AeadEncrypt(f.key, f.nonce, f.data.val)]
      [] k = 6 -> IF ~f.result.ok THEN f
                  ELSE [f EXCEPT !.result.val =
                           hex_encode(Combine(f.salt, f.nonce, f.ciphertext))]

\* crypto.rs lines 44-69.
StepDecrypt(a, k, f) ==
    CASE k = 1 -> [f EXCEPT !.data = hex_decode(a.encrypted),
                            !.result = IF ~hex_decode(a.encrypted).ok
                                       THEN Failed(hex_decode(a.encrypted).err)
                                       ELSE IF TooShort(hex_decode(a.encrypted).val)
                                       THEN Failed("Invalid encrypted data format")
                                       ELSE @]
      [] k = 2 -> IF ~f.result.ok THEN f
                  ELSE IF TooShort(f.data.val) THEN [f EXCEPT !.result = Failed("panic")]
                  ELSE [f EXCEPT !.salt = SubSeq(f.data.val, 1, SALT_SIZE),
                                 !.nonce = SubSeq(f.data.val, SALT_SIZE + 1,
                                                  SALT_SIZE + NONCE_SIZE),
                                 !.ciphertext = Drop(f.data.val, SALT_SIZE + NONCE_SIZE)]
      [] k = 3 -> IF ~f.result.ok THEN f
                  ELSE [f EXCEPT !.key = DeriveKey(a.password, f.salt)]
      [] k = 4 -> IF ~f.result.ok THEN f
                  ELSE IF ~CipherReady(f) THEN [f EXCEPT !.result = Failed("panic")]
                  ELSE [f EXCEPT !.plaintext = AeadDecrypt(f.key, f.nonce, f.ciphertext),
                                 !.result =
                                    IF AeadDecrypt(f.key, f.nonce, f.ciphertext).ok THEN @
                                    ELSE Failed("Decryption failed - wrong password?")]
      [] k = 5 -> IF ~f.result.ok THEN f
                  ELSE [f EXCEPT !.result.val = FormatKey(f.plaintext.val)]

\* Statement k of a call, on its locals f.
ThreadStep(call, k, f) ==
    CASE call.op = "encode_string" -> StepEncodeString(call.arg, k, f)
      [] call.op = "encode_uint256" -> StepEncodeUint256(call.arg, k, f)
      [] call.op = "encode_address" -> StepEncodeAddress(call.arg, k, f)
      [] call.op = "to_hex" -> StepToHex(call.arg, k, f)
      [] call.op = "decode_abi_string_array" -> StepDecode(call.arg, k, f)
      [] call.op = "encrypt_private_key" -> StepEncrypt(call.arg, k, f)
      [] call.op = "decrypt_private_key" -> StepDecrypt(call.arg, k, f)

\* What the call returns when it runs alone.
RunAlone(call) ==
    LET a == call.arg
        whole(r) == [ok |-> r.ok, val |-> r.val, err |-> r.err]
    IN  CASE call.op = "encode_string" -> [ok |-> TRUE, val |-> encode_string(a), err |-> ""]
          [] call.op = "encode_uint256" -> [ok |-> TRUE, val |-> encode_uint256(a), err |-> ""]
          [] call.op = "encode_address" -> whole(encode_address(a))
          [] call.op = "to_hex" -> [ok |-> TRUE, val |-> to_hex(a), err |-> ""]
          [] call.op = "decode_abi_string_array" ->
                [ok |-> decode_abi_string_array(a, NATIVE).kind = "ok",
                 val |-> decode_abi_string_array(a, NATIVE).val,
                 err |-> decode_abi_string_array(a, NATIVE).err]
          [] call.op = "encrypt_private_key" ->
                whole(encrypt_private_key(a.key, a.password, a.salt, a.nonce))
          [] call.op = "decrypt_private_key" ->
                whole(decrypt_private_key(a.encrypted, a.password))

\* All threads work in the locals of the first.
LocalsShared(t) == 1

\* The locals a thread's call works in: its own.
LocalsOf(t) == t

\* A thread is in the middle of a call.
Amid(t) == th_call[t].op # "none" /\ th_pc[t] >= 1 /\ th_out[t] = <<>>

ThreadCall ==
    /\ \E t \in Threads :
          /\ th_call[t].op = "none"
          /\ \E call \in ThreadCalls :
                th_call' = [th_call EXCEPT ![t] =
                               [call EXCEPT !.amid = \E o \in Threads \ {t} : Amid(o)]]
          /\ th_buf' = [th_buf EXCEPT ![LocalsOf(t)] = NoLocals]
    /\ UNCHANGED <<th_pc, th_out, vault_vars, decoder_vars, encoder_vars, cli_vars>>

ThreadRun ==
    /\ \E t \in Threads :
          /\ th_call[t].op # "none"
          /\ th_pc[t] < StepsOf(th_call[t].op)
          /\ th_pc' = [th_pc EXCEPT ![t] = @ + 1]
          /\ th_buf' = [th_buf EXCEPT ![LocalsOf(t)] = ThreadStep(th_call[t], th_pc[t] + 1, @)]
    /\ UNCHANGED <<th_call, th_out, vault_vars, decoder_vars, encoder_vars, cli_vars>>

ThreadReturn ==
    /\ \E t \in Threads :
          /\ th_call[t].op # "none"
          /\ th_pc[t] = StepsOf(th_call[t].op)
          /\ th_out[t] = <<>>
          /\ th_out' = [th_out EXCEPT ![t] = <<th_buf[LocalsOf(t)].result>>]
    /\ UNCHANGED <<th_call, th_pc, th_buf, vault_vars, decoder_vars, encoder_vars, cli_vars>>

NextThreads == ThreadCall \/ ThreadRun \/ ThreadReturn

SpecThreads == Init /\ [][NextThreads]_vars

---------------------------------------------------------------------------
(* The CLI as its user drives it: commands are typed at two terminals in   *)
(* the same directory, starting from a fresh installation.  A wallet-      *)
(* adding command reads wallet.toml and later writes it, and the other     *)
(* terminal's command may run in between; wallet.toml may be edited by     *)
(* hand so that it no longer parses.                                       *)

MaxCommands == 3   \* commands started in a run
MaxWallets == 3    \* add_wallet calls on the WalletsFile held in memory

WalletNames == {Str(<<"a">>), Str(<<"b">>)}

\* Keys typed: bare hex, prefixed hex, and one that is no hex.
PrivateKeys ==
    {Str(<<"a", "b">>), Str(<<"0", "x", "c", "d">>), Str(<<"0", "x", "g", "1">>)}

GOOD_PASSWORD == Str(<<"o", "p", "e", "n", "1", "2", "3", "4">>)

OTHER_PASSWORD == Str(<<"o", "p", "e", "n", "1", "2", "3", "5">>)

\* The password and its confirmation: the same, different, too short.
PasswordsTyped ==
    {<<GOOD_PASSWORD, GOOD_PASSWORD>>, <<GOOD_PASSWORD, OTHER_PASSWORD>>,
     <<Str(<<"p", "w">>), Str(<<"p", "w">>)>>}

\* What the random source draws for a command's salt and nonce.
DRAWN_SALT == [i \in 1..SALT_SIZE |-> (7 * i) % 256]

DRAWN_NONCE == [i \in 1..NONCE_SIZE |-> (11 * i + 3) % 256]

\* The command of a terminal after its prompts and its load of
\* wallet.toml: returned with an error, or holding the list with the new
\* entry appended (main.rs lines 147-173 and 331-407).
Started(op, p, name, read, loaded) ==
    IF read.kind # "ok"
    THEN [NoCommand EXCEPT !.op = op, !.pc = "returned", !.kind = "err", !.err = read.err]
    ELSE IF loaded.kind # "ok"
    THEN [NoCommand EXCEPT !.op = op, !.pc = "returned", !.kind = "err", !.err = loaded.err]
    ELSE [op |-> op, pc |-> "loaded",
          entry |-> <<WalletEntry(name, read.val.address, read.val.encrypted_key)>>,
          wallets |-> add_wallet(loaded.val, name, read.val.address,
                                 read.val.encrypted_key).wallets,
          before |-> f_wallet.wallets,
          alone |-> TRUE,
          amid |-> \E q \in Terminals \ {p} : k_proc[q].pc = "loaded",
          kind |-> "none", err |-> ""]

\* The terminals after terminal p's command has written wallet.toml and
\* returned.
Saved(p) ==
    [q \in Terminals |->
        IF q = p THEN [k_proc[q] EXCEPT !.pc = "returned", !.kind = "ok"]
        ELSE [k_proc[q] EXCEPT !.alone = @ /\ k_proc[q].pc # "loaded"]]

\* main.rs lines 403-404: a wallet.toml that does not load counts as empty.
unwrap_or_empty(loaded) == IF loaded.kind = "ok" THEN loaded ELSE Ok([wallets |-> <<>>])

\* add_wallet, main.rs lines 144-173: up to the list in memory.
AddWalletLoad ==
    /\ k_runs < MaxCommands
    /\ \E p \in Terminals, name \in WalletNames, key \in PrivateKeys, typed \in PasswordsTyped :
          /\ k_proc[p].pc # "loaded"
          /\ k_proc' = [k_proc EXCEPT ![p] =
                Started("add_wallet", p, name,
                        read_key(key, typed[1], typed[2], DRAWN_SALT, DRAWN_NONCE),
                        WalletsFile_load(f_wallet))]
    /\ k_runs' = k_runs + 1
    /\ UNCHANGED <<f_wallet, f_config, f_rust, k_import, k_deploy, k_log>>
    /\ UNCHANGED <<m_wallets, m_calls, m_got>>
    /\ UNCHANGED <<vault_vars, decoder_vars, encoder_vars, thread_vars>>

\* add_wallet, main.rs lines 174-179.
AddWalletSave ==
    /\ \E p \in Terminals :
          /\ k_proc[p].op = "add_wallet"
          /\ k_proc[p].pc = "loaded"
          /\ f_wallet' = WalletsFile_save([wallets |-> k_proc[p].wallets])
          /\ k_proc' = Saved(p)
    /\ k_log' = Append(k_log, "add_wallet")
    /\ UNCHANGED <<f_config, f_rust, k_import, k_deploy, k_runs>>
    /\ UNCHANGED <<m_wallets, m_calls, m_got>>
    /\ UNCHANGED <<vault_vars, decoder_vars, encoder_vars, thread_vars>>

\* init_cli, main.rs lines 255-407: up to the list in memory.
InitCliLoad ==
    /\ k_runs < MaxCommands
    /\ \E p \in Terminals, name \in WalletNames, key \in PrivateKeys, typed \in PasswordsTyped :
          /\ k_proc[p].pc # "loaded"
          /\ k_proc' = [k_proc EXCEPT ![p] =
                Started("init_cli", p, name,
                        read_key(key, typed[1], typed[2], DRAWN_SALT, DRAWN_NONCE),
                        unwrap_or_empty(WalletsFile_load(f_wallet)))]
    /\ k_runs' = k_runs + 1
    /\ UNCHANGED <<f_wallet, f_config, f_rust, k_import, k_deploy, k_log>>
    /\ UNCHANGED <<m_wallets, m_calls, m_got>>
    /\ UNCHANGED <<vault_vars, decoder_vars, encoder_vars, thread_vars>>

\* init_cli, main.rs lines 408-428: wallet.toml, then config.toml.
InitCliSave ==
    /\ \E p \in Terminals :
          /\ k_proc[p].op = "init_cli"
          /\ k_proc[p].pc = "loaded"
          /\ f_wallet' = WalletsFile_save([wallets |-> k_proc[p].wallets])
          /\ f_config' = [exists |-> TRUE, active_wallet |-> k_proc[p].entry[1].name]
          /\ k_proc' = Saved(p)
    /\ k_log' = Append(k_log, "init_cli")
    /\ UNCHANGED <<f_rust, k_import, k_deploy, k_runs>>
    /\ UNCHANGED <<m_wallets, m_calls, m_got>>
    /\ UNCHANGED <<vault_vars, decoder_vars, encoder_vars, thread_vars>>

\* main.rs lines 612-676, of rust/config.toml as it is on disk.  Writing
\* the template (line 655) does not create the directory.
import_key(file, read) ==
    IF read.kind # "ok" THEN Err(read.err) @@ [file |-> file]
    ELSE IF ~file.exists /\ ~file.dir
    THEN Err("No such file or directory") @@ [file |-> file]
    ELSE Ok(read.val)
         @@ [file |-> [dir |-> TRUE, exists |-> TRUE,
                       encrypted_key |-> read.val.encrypted_key,
                       address |-> read.val.address]]

ImportKey ==
    /\ k_runs < MaxCommands
    /\ \E key \in PrivateKeys, typed \in PasswordsTyped :
          LET done == import_key(f_rust, read_key(key, typed[1], typed[2],
                                                  DRAWN_SALT, DRAWN_NONCE))
          IN  /\ k_import' = [kind |-> done.kind, err |-> done.err, val |-> done.val]
              /\ f_rust' = done.file
              /\ k_log' = IF done.kind = "ok" THEN Append(k_log, "import_key") ELSE k_log
    /\ k_runs' = k_runs + 1
    /\ UNCHANGED <<f_wallet, f_config, k_proc, k_deploy>>
    /\ UNCHANGED <<m_wallets, m_calls, m_got>>
    /\ UNCHANGED <<vault_vars, decoder_vars, encoder_vars, thread_vars>>

\* main.rs lines 678-704: the wallet is chosen from wallet.toml,
\* config.toml is loaded, the password is asked for and the key decrypted.
deploy_contract(wallet_file, config_file, choice, password) ==
    LET selected  == select_wallet_interactive(wallet_file, choice)
        decrypted == decrypt_private_key(selected.val.encrypted_key, password)
    IN  IF selected.kind # "ok" THEN Err(selected.err)
        ELSE IF ~config_file.exists THEN Err("Failed to load config. Run 'init' first.")
        ELSE IF ~decrypted.ok THEN Err("Failed to decrypt private key. Wrong password?")
        ELSE Ok([encrypted_key |-> selected.val.encrypted_key,
                 private_key |-> decrypted.val])

DeployContract ==
    /\ k_runs < MaxCommands
    /\ \E choice \in 0..MaxCommands, password \in {GOOD_PASSWORD, OTHER_PASSWORD} :
          k_deploy' = deploy_contract(f_wallet, f_config, choice, password)
                      @@ [after |-> k_log, password |-> password]
    /\ k_runs' = k_runs + 1
    /\ UNCHANGED <<f_wallet, f_config, f_rust, k_proc, k_import, k_log>>
    /\ UNCHANGED <<m_wallets, m_calls, m_got>>
    /\ UNCHANGED <<vault_vars, decoder_vars, encoder_vars, thread_vars>>

\* The user makes the directory rust/.
Mkdir ==
    /\ ~f_rust.dir
    /\ f_rust' = [f_rust EXCEPT !.dir = TRUE]
    /\ UNCHANGED <<f_wallet, f_config, k_proc, k_import, k_deploy, k_log, k_runs>>
    /\ UNCHANGED <<m_wallets, m_calls, m_got>>
    /\ UNCHANGED <<vault_vars, decoder_vars, encoder_vars, thread_vars>>

\* wallet.toml is edited by hand and no longer parses; the entries written
\* in it are still there.
Scribble ==
    /\ f_wallet.exists
    /\ f_wallet.parses
    /\ f_wallet' = [f_wallet EXCEPT !.parses = FALSE]
    /\ UNCHANGED <<f_config, f_rust, k_proc, k_import, k_deploy, k_log, k_runs>>
    /\ UNCHANGED <<m_wallets, m_calls, m_got>>
    /\ UNCHANGED <<vault_vars, decoder_vars, encoder_vars, thread_vars>>

NextCli ==
    \/ AddWalletLoad \/ AddWalletSave \/ InitCliLoad \/ InitCliSave
    \/ ImportKey \/ DeployContract \/ Mkdir \/ Scribble

SpecCli == Init /\ [][NextCli]_vars

---------------------------------------------------------------------------
(* A WalletsFile value in memory, as add_wallet and init_cli hold one      *)
(* between load and save: entries are added and looked up by name.         *)

\* Addresses and keys of the entries added; what they are does not matter
\* to the list.
EntryAddresses == {Str(<<"0", "x", "a">>), Str(<<"0", "x", "b">>)}

ENTRY_KEY == Str(<<"a", "b", "c", "d">>)

MemAddWallet ==
    /\ Len(m_calls) < MaxWallets
    /\ \E name \in WalletNames, address \in EntryAddresses :
          /\ m_wallets' = add_wallet(m_wallets, name, address, ENTRY_KEY)
          /\ m_calls' = Append(m_calls, <<name, address, ENTRY_KEY>>)
    /\ UNCHANGED <<m_got, f_wallet, f_config, f_rust, k_proc, k_import, k_deploy, k_log, k_runs>>
    /\ UNCHANGED <<vault_vars, decoder_vars, encoder_vars, thread_vars>>

MemGetWallet ==
    /\ \E name \in WalletNames \cup {Str(<<"c">>)} :
          m_got' = [name |-> name, at |-> Len(m_wallets.wallets),
                    found |-> get_wallet(m_wallets, name)]
    /\ UNCHANGED <<m_wallets, m_calls>>
    /\ UNCHANGED <<f_wallet, f_config, f_rust, k_proc, k_import, k_deploy, k_log, k_runs>>
    /\ UNCHANGED <<vault_vars, decoder_vars, encoder_vars, thread_vars>>

NextWalletsFile == MemAddWallet \/ MemGetWallet

SpecWalletsFile == Init /\ [][NextWalletsFile]_vars

---------------------------------------------------------------------------
(* Claims about the vault, checked under SpecVault *)

ToLower(s) == [i \in 1..Len(s) |-> IF s[i] >= 65 /\ s[i] <= 90 THEN s[i] + 32 ELSE s[i]]

HasPrefix(s, p) == Len(s) >= Len(p) /\ Take(s, Len(p)) = p

IsHexDigit(c) == (c >= 48 /\ c <= 57) \/ (c >= 97 /\ c <= 102) \/ (c >= 65 /\ c <= 70)

ValidHex(s) == Len(s) % 2 = 0 /\ \A i \in 1..Len(s) : IsHexDigit(s[i])

\* decrypt_private_key has run on the untouched blob of a successful
\* encrypt_private_key, with the password it was encrypted under.
RoundTrip ==
    /\ v_pc = "done"
    /\ v_enc.ok
    /\ v_damage = "none"
    /\ v_dec.err # "not called"
    /\ v_dec.password = v_password

\* C1 as stated: decrypting what was encrypted, with the same password,
\* succeeds and returns the original secret text exactly, with a 0x prefix
\* put in front when it had none.
C1_RoundTripExact ==
    RoundTrip =>
        /\ v_dec.ok
        /\ v_dec.val = (IF HasPrefix(v_key, PREFIX_0x) THEN v_key ELSE PREFIX_0x \o v_key)

\* C1 amended: whenever encrypt_private_key succeeds, decrypting its blob
\* with the same password succeeds and returns 0x followed by the secret's
\* hex digits in lowercase (the original text with a 0x prefix exactly when
\* its digits were lowercase).
C1_RoundTripLowercase ==
    RoundTrip =>
        /\ v_dec.ok
        /\ v_dec.val = PREFIX_0x \o ToLower(StripPrefix(v_key, PREFIX_0x))

\* A two-byte secret with an uppercase digit and no prefix went round.
C1_Witness ==
    /\ RoundTrip
    /\ v_dec.ok
    /\ v_key = Str(<<"1", "B", "B", "1">>)
    /\ v_password = Str(<<"p", "w">>)

\* C2: on a blob that encrypt_private_key produced, decrypt_private_key
\* returns an error and no plaintext when the password differs from the
\* one used to encrypt, and when the password is right but a byte of the
\* salt, nonce, ciphertext or tag was changed.
C2_WrongPasswordOrTamperFails ==
    (/\ v_pc = "done"
     /\ v_enc.ok
     /\ v_dec.err # "not called"
     /\ \/ (v_damage = "none" /\ v_dec.password # v_password)
        \/ (v_damage \in {"salt", "nonce", "ciphertext", "tag"}
            /\ v_dec.password = v_password))
    => (~v_dec.ok /\ v_dec.val = <<>>
        /\ v_dec.err = "Decryption failed - wrong password?")

\* A blob with a changed salt byte was refused under the right password.
C2_Witness ==
    /\ v_pc = "done"
    /\ v_enc.ok
    /\ v_damage = "salt"
    /\ v_dec.password = v_password
    /\ Len(v_enc.private_key_bytes) = 2
    /\ ~v_dec.ok
    /\ v_dec.steps[Len(v_dec.steps)] = "decrypt"

\* C3: decrypt_private_key returns an error, and runs neither the key
\* derivation nor the decryption, on every text that is not valid hex and
\* on every text that decodes to fewer than 16 + 12 bytes.
C3_ShortOrInvalidRejectedEarly ==
    (/\ v_pc = "done"
     /\ v_dec.err # "not called"
     /\ (~ValidHex(v_blob) \/ Len(v_blob) < 2 * (16 + 12)))
    => /\ ~v_dec.ok
       /\ v_dec.val = <<>>
       /\ v_dec.err \in {"OddLength", "InvalidHexCharacter", "Invalid encrypted data format"}
       /\ \A k \in 1..Len(v_dec.steps) : v_dec.steps[k] \notin {"derive_key", "decrypt"}

\* A blob cut to 27 bytes was refused by the length check.
C3_Witness ==
    /\ v_pc = "done"
    /\ v_damage = "truncated"
    /\ ValidHex(v_blob)
    /\ Len(v_blob) = 2 * 27
    /\ v_dec.err = "Invalid encrypted data format"

\* C4: a blob returned by encrypt_private_key is lowercase hex with no
\* prefix; its bytes are the salt (16), the nonce (12), then ciphertext and
\* tag, 16 + 12 + plaintext length + 16 in all; and decrypt_private_key,
\* given that blob, splits it at the same offsets and derives its key from
\* its password and that salt.
C4_BlobLayout ==
    /\ (v_enc.err # "not called" /\ v_enc.ok) =>
          /\ ValidHex(v_enc.val) /\ ToLower(v_enc.val) = v_enc.val
          /\ LET data == hex_decode(v_enc.val).val
             IN  /\ Len(data) = 16 + 12 + (Len(StripPrefix(v_key, PREFIX_0x)) \div 2) + 16
                 /\ SubSeq(data, 1, 16) = v_enc.salt
                 /\ SubSeq(data, 17, 28) = v_enc.nonce
                 /\ SubSeq(data, 29, Len(data)) = v_enc.ciphertext
    /\ (v_pc = "done" /\ v_enc.ok /\ v_damage = "none" /\ v_dec.err # "not called") =>
          /\ v_dec.salt = v_enc.salt
          /\ v_dec.nonce_bytes = v_enc.nonce
          /\ v_dec.ciphertext = v_enc.ciphertext
          /\ v_dec.encryption_key = Sha256(v_dec.password \o v_enc.salt)
          /\ (v_dec.password = v_password => v_dec.encryption_key = v_enc.encryption_key)

\* A prefixed two-byte secret was encrypted and its blob split again under
\* another password.
C4_Witness ==
    /\ v_pc = "done"
    /\ v_enc.ok
    /\ v_damage = "none"
    /\ v_key = PREFIX_0x \o Str(<<"B", "1", "1", "1">>)
    /\ Len(v_enc.val) = 2 * (16 + 12 + 2 + 16)
    /\ v_dec.password # v_password
    /\ v_dec.salt = v_enc.salt

\* C17: a wrong password and a corrupted blob are reported differently:
\* the error for a blob of at least 28 bytes whose ciphertext or tag was
\* changed or cut, under the right password, differs from the error the
\* untouched blob gives under a wrong password.
C17_WrongPasswordDistinctFromCorruption ==
    (/\ v_pc = "done"
     /\ v_enc.ok
     /\ v_dec.err # "not called"
     /\ v_dec.password = v_password
     /\ v_damage \in {"ciphertext", "tag", "truncated"}
     /\ Take(v_blob, Min(Len(v_blob), 2 * (SALT_SIZE + NONCE_SIZE)))
          = Take(v_enc.val, 2 * (SALT_SIZE + NONCE_SIZE))
     /\ hex_decode(v_blob).ok
     /\ Len(hex_decode(v_blob).val) >= SALT_SIZE + NONCE_SIZE)
    => /\ ~v_dec.ok
       /\ \A wrong \in Passwords \ {v_password} :
             v_dec.err # decrypt_private_key(v_enc.val, wrong).err

---------------------------------------------------------------------------
(* Claims about the response decoder, checked under SpecDecoder *)

\* decode_endpoints_response has returned or panicked.
Decoded == d_pc = "done" /\ d_out.kind # "none"

\* The response holds, whole and 0x-prefixed, the encoding of the arrays
\* the contract returned.
Whole == d_damage = "none"

AllUtf8(xs) == \A i \in 1..Len(xs) : xs[i] # INVALID_UTF8

\* The elements of xs that are UTF-8, in order.
Utf8Only(xs) == SelectSeq(xs, LAMBDA x : x # INVALID_UTF8)

\* Where element k (from 1) of array xs starts in the pair's encoding, the
\* array itself starting at `base`: after the length word, the offset
\* table and the elements before it.
ElemStart(xs, base, k) ==
    base + 32 + 32 * Len(xs) + Len(Flatten([i \in 1..(k - 1) |-> AbiString(xs[i])]))

\* The response's return data is cut inside element k of xs: some of the
\* element's length word or bytes arrived, and not all.
CutInside(xs, base, k) ==
    LET size == (Len(d_response.result) - 2) \div 2
    IN  /\ d_damage = "cut"
        /\ k \in 1..Len(xs)
        /\ size > ElemStart(xs, base, k)
        /\ size < ElemStart(xs, base, k) + 32 + Len(xs[k])

\* C5: the ABI encoding of two string arrays of equal length n, element
\* offsets counted from the start of each offset table, decodes to the n
\* records (urls[i], descriptions[i]) in order.
C5_StandardEncodingDecodes ==
    (Decoded /\ Whole /\ Len(d_urls) = Len(d_descs) /\ AllUtf8(d_urls))
    => /\ d_out.kind = "ok"
       /\ d_out.val = [i \in 1..Len(d_urls) |-> [url |-> d_urls[i], description |-> d_descs[i]]]

\* C6: whatever the result text and the buffer hold, the decoder returns a
\* record list or an error value; it never panics.
C6_NeverPanics == Decoded => d_out.kind \in {"ok", "err"}

\* C7: when the buffer is cut off inside the data of element k of an array,
\* the array decoder returns exactly the elements before k, in order.
C7_CutYieldsPrefix ==
    \A k \in 1..MaxElems :
        /\ (Decoded /\ AllUtf8(d_urls) /\ CutInside(d_urls, 64, k))
           => (d_out.kind = "ok" /\ d_out.urls = SubSeq(d_urls, 1, k - 1))
        /\ (Decoded /\ AllUtf8(d_urls)
            /\ CutInside(d_descs, 64 + Len(AbiStringArray(d_urls)), k))
           => (d_out.kind = "ok" /\ d_out.descriptions = SubSeq(d_descs, 1, k - 1))

\* C8: the encoding of two empty string arrays (two head words, two zero
\* length words) decodes to Ok with an empty record list.
C8_EmptyArraysDecodeToEmptyList ==
    (/\ Decoded
     /\ d_response.json_ok /\ ~d_response.has_error /\ d_response.result_kind = "string"
     /\ d_response.result
          = PREFIX_0x \o hex_encode(AbiWord(64) \o AbiWord(96) \o AbiWord(0) \o AbiWord(0)))
    => (d_out.kind = "ok" /\ d_out.val = <<>>)

\* The encoding of two empty arrays arrived whole and was decoded.
C8_Witness ==
    /\ Decoded
    /\ Whole
    /\ d_urls = <<>>
    /\ d_descs = <<>>
    /\ Len(d_response.result) = 2 + 2 * 128
    /\ d_out.kind = "ok"

\* C9: an element that is not valid UTF-8 is left out without an error and
\* the later elements are still decoded: the array decoder returns the
\* valid elements of the encoded array in their order.
C9_InvalidUtf8Skipped ==
    (Decoded /\ Whole /\ ~AllUtf8(d_urls))
    => (d_out.kind = "ok" /\ d_out.urls = Utf8Only(d_urls))

\* C10: the record list is as long as the shorter of the two decoded
\* lists, record i pairs their i-th elements, and the rest of the longer
\* list is dropped without an error.
C10_ZipToShorter ==
    (Decoded /\ d_out.kind = "ok")
    => /\ Len(d_out.val) = Min(Len(d_out.urls), Len(d_out.descriptions))
       /\ \A i \in 1..Len(d_out.val) :
             /\ d_out.val[i].url = d_out.urls[i]
             /\ d_out.val[i].description = d_out.descriptions[i]

\* Two lists of different lengths were decoded and a record was returned.
C10_Witness ==
    /\ Decoded
    /\ d_out.kind = "ok"
    /\ Len(d_out.urls) # Len(d_out.descriptions)
    /\ Len(d_out.val) >= 1

\* C16: the result text is accepted with or without a leading "0x": the
\* hex of a buffer decodes to what "0x" and the same hex decodes to.
C16_PrefixOptional ==
    (Decoded /\ d_damage = "bare")
    => \E target \in Builds :
          d_out = decode_endpoints_response(
                      ResultResponse(PREFIX_0x \o d_response.result), target)

\* C18: a buffer of fewer than 64 bytes, too short for the two head words,
\* decodes to a decoding error and not to a record list.
C18_ShortBufferIsError ==
    (/\ Decoded
     /\ d_damage = "cut"
     /\ (Len(d_response.result) - 2) \div 2 < 64)
    => (d_out.kind = "err" /\ d_out.err = "Decode")

\* The buffer the array decoder is given: the return data as it arrived.
Buffer == hex_decode(Drop(d_response.result, 2)).val

\* Return data with both head words arrived, whole, cut or with a word
\* changed, and was decoded.
HeadsArrived ==
    /\ Decoded
    /\ d_damage \in {"none", "cut", "corrupt"}
    /\ Len(Buffer) >= 64

\* The u64 in head word k (0 for the urls, 1 for the descriptions).
HeadOffset(k) == SubSeq(Buffer, 32 * k + 25, 32 * k + 32)

\* The buffer is shorter than off + 32, for the usize of either width that
\* the u64 `off` becomes.
Beyond(off) == off[5] >= 128 \/ ToNat(off) + 32 > Len(Buffer)

\* C22: for each array, if the buffer is shorter than the array's head
\* offset + 32, the decoder returns an empty list for that array and no
\* error, and so an empty record list, whatever the other array holds.
C22_ArrayBeyondBufferIsEmpty ==
    HeadsArrived
    => /\ Beyond(HeadOffset(0))
          => (d_out.kind = "ok" /\ d_out.urls = <<>> /\ d_out.val = <<>>)
       /\ Beyond(HeadOffset(1))
          => (d_out.kind = "ok" /\ d_out.descriptions = <<>> /\ d_out.val = <<>>)

\* The high half of a u64 is zero and the low half is below 2^31.
Small(v) == (\A j \in 1..4 : v[j] = 0) /\ v[5] < 128

\* Array k's length word lies inside the buffer, at ArrayStart(k).
Reaches(k) == Small(HeadOffset(k)) /\ ~Beyond(HeadOffset(k))

ArrayStart(k) == ToNat(HeadOffset(k))

\* The element count that array k's length word declares, a u64.
Declared(k) == SubSeq(Buffer, ArrayStart(k) + 25, ArrayStart(k) + 32)

\* r <= n, for a number r and a u64 n
AtMost(r, n) == ~Small(n) \/ r <= ToNat(n)

\* The offset words of array k that lie fully inside the buffer.
WordsInside(k) == (Len(Buffer) - ArrayStart(k) - 32) \div 32

\* C23: whatever element count the length word declares, the array decoder
\* ends: its loop is entered at most floor(buffer length / 32) times and at
\* most as often as the count says, it stops at the first index whose
\* offset word is not fully inside the buffer, and it returns at most
\* min(count, floor(buffer length / 32)) elements.
C23_LoopBoundedByBuffer ==
    HeadsArrived
    => \A k \in {0, 1} :
          LET rounds == d_out.rounds[k + 1]
              list   == IF k = 0 THEN d_out.urls ELSE d_out.descriptions
          IN  /\ rounds <= Len(Buffer) \div 32
              /\ Len(list) <= rounds
              /\ Reaches(k) => AtMost(rounds, Declared(k))
              /\ Beyond(HeadOffset(k)) => rounds = 0
              /\ (d_out.kind = "ok" /\ Reaches(k))
                 => rounds = IF AtMost(WordsInside(k) + 1, Declared(k))
                             THEN WordsInside(k) + 1
                             ELSE ToNat(Declared(k))

\* The urls' length word arrived holding 2^64 - 1, and the decoder returned
\* after entering its loop more than once.
C23_Witness ==
    /\ HeadsArrived
    /\ d_damage = "corrupt"
    /\ Reaches(0)
    /\ Declared(0) = <<255, 255, 255, 255, 255, 255, 255, 255>>
    /\ d_out.kind = "ok"
    /\ d_out.rounds[1] >= 2

\* The error object says that the call reverted: its code is the number 3
\* and its message is a text with "execution reverted" somewhere in it.
SaysReverted(e) ==
    /\ e.code_is_u64 /\ e.code = 3
    /\ e.message_is_str
    /\ \E k \in 0..(Len(e.message) - Len(EXECUTION_REVERTED)) :
          Take(Drop(e.message, k), Len(EXECUTION_REVERTED)) = EXECUTION_REVERTED

\* The decoder never looked into the return data.
ResultNotDecoded ==
    d_out.urls = <<>> /\ d_out.descriptions = <<>> /\ d_out.rounds = <<0, 0>>

\* C24: of a response with an error object, code 3 with a message
\* containing "execution reverted" gives Ok with no records and every other
\* error object gives a Network error; a response with neither an error
\* nor a text result gives a Parse error; in none of these cases is the
\* result decoded.
C24_ErrorObjectMapping ==
    (Decoded /\ d_response.json_ok)
    => /\ d_response.has_error
          => /\ IF SaysReverted(d_response.error)
                THEN d_out.kind = "ok" /\ d_out.val = <<>>
                ELSE d_out.kind = "err" /\ d_out.err = "Network"
             /\ ResultNotDecoded
       /\ (~d_response.has_error /\ d_response.result_kind # "string")
          => /\ d_out.kind = "err" /\ d_out.err = "Parse"
             /\ ResultNotDecoded

\* An error object with code 3 and the message "no: execution reverted"
\* arrived beside decodable return data, and Ok was returned.
C24_Witness ==
    /\ Decoded
    /\ d_response.has_error
    /\ d_response.error.code = 3
    /\ d_response.error.message = Str(<<"n", "o", ":", " ">>) \o EXECUTION_REVERTED
    /\ d_response.result = RESULT_BESIDE_ERROR
    /\ d_out.kind = "ok"

\* C26: every record pairs a url and a description that stood at the same
\* index of the two encoded arrays, also when elements that are not UTF-8
\* were left out.
C26_RecordsPairSameIndex ==
    (Decoded /\ d_damage \in {"none", "absolute"} /\ d_out.kind = "ok")
    => \A r \in 1..Len(d_out.val) :
          \E i \in 1..Min(Len(d_urls), Len(d_descs)) :
             /\ d_out.val[r].url = d_urls[i]
             /\ d_out.val[r].description = d_descs[i]

---------------------------------------------------------------------------
(* Claims about the encoder and the call data, checked under SpecEncoder *)

\* The number a 4-byte big-endian field holds (below 2^31 in the model).
FieldValue(b) == 16777216 * b[1] + 65536 * b[2] + 256 * b[3] + b[4]

\* n rounded up to a multiple of 32.
RoundUp32(n) == 32 * (n \div 32 + (IF n % 32 = 0 THEN 0 ELSE 1))

\* C11: encode_string(s) always returns an offset word of 0x20, a length
\* word holding the byte length of s, then the bytes of s and zero bytes up
\* to the next multiple of 32: 64 + ceil(len(s)/32)*32 bytes in all.
C11_EncodeStringLayout ==
    c_call.op = "encode_string"
    => LET s   == c_call.arg
           out == c_call.out
       IN  /\ Len(out) = 64 + RoundUp32(Len(s))
           /\ \A i \in 1..31 : out[i] = 0
           /\ out[32] = 32
           /\ \A i \in 33..60 : out[i] = 0
           /\ FieldValue(SubSeq(out, 61, 64)) = Len(s)
           /\ SubSeq(out, 65, 64 + Len(s)) = s
           /\ \A i \in (65 + Len(s))..Len(out) : out[i] = 0

\* A text that starts with a two-byte character and ends one byte into
\* its second word was encoded.
C11_Witness ==
    /\ c_call.op = "encode_string"
    /\ Len(c_call.arg) = 33
    /\ c_call.arg[1] = 195
    /\ Len(c_call.out) = 128

\* C12: encode_uint256(u) is 24 zero bytes followed by the eight bytes of
\* u, most significant first, and parse_u256 of that word returns u.
C12_Uint256RoundTrip ==
    /\ c_call.op = "encode_uint256"
       => /\ Len(c_call.out) = 32
          /\ \A i \in 1..24 : c_call.out[i] = 0
          /\ \A k \in 1..4 :
                256 * c_call.out[23 + 2 * k] + c_call.out[24 + 2 * k] = c_call.arg[k]
    /\ c_call.op = "parse_u256"
       => /\ c_call.out.kind = "ok"
          /\ from_be_bytes(c_call.out.val) = c_call.of

\* A value with distinct non-zero limbs, above 2^48, was encoded and
\* parsed back.
C12_Witness ==
    /\ c_call.op = "parse_u256"
    /\ c_call.of = <<123, 256, 65535, 123>>
    /\ c_call.out.kind = "ok"

\* C13: encode_address succeeds exactly when the text, less one leading
\* "0x" if it has one, is valid hex of 20 bytes; the result is then 12 zero
\* bytes and the 20 address bytes; otherwise it is an error and no bytes.
C13_EncodeAddressExactly ==
    c_call.op = "encode_address"
    => LET body == IF HasPrefix(c_call.arg, PREFIX_0x) THEN Drop(c_call.arg, 2)
                   ELSE c_call.arg
           good == ValidHex(body) /\ Len(body) = 2 * ADDRESS_SIZE
           out  == c_call.out
       IN  /\ out.ok <=> good
           /\ good => /\ Len(out.val) = 32
                      /\ \A i \in 1..12 : out.val[i] = 0
                      /\ hex_encode(Drop(out.val, 12)) = ToLower(body)
           /\ ~good => (out.val = <<>> /\ out.err # "")

\* A prefixed address with uppercase digits was encoded.
C13_Witness ==
    /\ c_call.op = "encode_address"
    /\ c_call.out.ok
    /\ HasPrefix(c_call.arg, PREFIX_0x)
    /\ c_call.arg[3] = CharCode("B")

\* The hex text is "0x" and the lowercase hex of the bytes.
IsHexOf(text, bytes) ==
    /\ HasPrefix(text, PREFIX_0x)
    /\ ValidHex(Drop(text, 2))
    /\ ToLower(Drop(text, 2)) = Drop(text, 2)
    /\ hex_decode(Drop(text, 2)).val = bytes

\* What build() and to_hex() returned is the selector then the parameter
\* bytes, and "0x" with their lowercase hex.
BuildAndToHexExact ==
    /\ t_built # <<>>
       => t_built[1].out = t_built[1].of.method_id \o t_built[1].of.data
    /\ t_hex # <<>>
       => IsHexOf(t_hex[1].out, t_hex[1].of.method_id \o t_hex[1].of.data)

ZeroArgumentBuilders ==
    {"encode_get_endpoint_count", "encode_get_all_endpoints", "encode_owner"}

\* to_hex() of what a zero-argument builder returned has 10 characters.
ZeroArgumentHex ==
    (/\ t_hex # <<>>
     /\ t_origin.by \in ZeroArgumentBuilders
     /\ build(t_hex[1].of) = t_born[1])
    => Len(t_hex[1].out) = 10

C15_SelectorsAgree ==
    /\ c_call.op = "function_selector"
       => c_call.out = Take(Keccak256(c_call.arg), 4)
    /\ c_call.op = "method_id"
       => c_call.out = function_selector(Signature(c_call.of))
    /\ c_call.op = "get_endpoints"
       => IsHexOf(c_call.out, method_id(c_call.of))

\* C21: parse_u256 reads only bytes 24..32 of its input: given at least 32
\* bytes it returns their big-endian value whatever bytes 0..24 hold, and
\* it returns an error only when given fewer than 32 bytes.
C21_ParseU256LowEightBytes ==
    c_call.op = "parse_u256 of a slice"
    => IF Len(c_call.arg) < 32
       THEN c_call.out.kind = "err"
       ELSE /\ c_call.out.kind = "ok"
            /\ from_be_bytes(c_call.out.val) = c_call.of

\* A word whose bytes 0..24 are all 255 was parsed to the value of its low
\* 8 bytes.
C21_Witness ==
    /\ c_call.op = "parse_u256 of a slice"
    /\ Len(c_call.arg) = 32
    /\ c_call.arg[1] = 255
    /\ c_call.of = <<123, 256, 65535, 123>>
    /\ c_call.out.kind = "ok"

\* C20: once a TransactionData value is constructed, no operation on it
\* changes the bytes build() returns.
C20_BuildNeverChanges ==
    /\ HasTx => build(t_tx) = t_born[1]
    /\ (HasTx /\ t_built # <<>>) => t_built[1].out = t_born[1]

---------------------------------------------------------------------------
(* Claims about a WalletsFile in memory, checked under SpecWalletsFile *)

\* The entries a WalletsFile held after its first n add_wallet calls.
HeldAfter(n) == SubSeq(m_wallets.wallets, 1, n)

\* C28: after any sequence of add_wallet calls the list holds one entry
\* per call, in call order, whatever the names; get_wallet(name) returns
\* the earliest entry of that name, or None, and so never an entry added
\* later under a name already there.
C28_AppendedInOrderFirstNameWins ==
    /\ Len(m_wallets.wallets) = Len(m_calls)
    /\ \A i \in 1..Len(m_calls) :
          m_wallets.wallets[i] = WalletEntry(m_calls[i][1], m_calls[i][2], m_calls[i][3])
    /\ LET named == {i \in 1..m_got.at : HeldAfter(m_got.at)[i].name = m_got.name}
       IN  IF named = {} THEN m_got.found = <<>>
           ELSE \E i \in named :
                   /\ \A j \in named : i <= j
                   /\ m_got.found = <<HeldAfter(m_got.at)[i]>>

\* Two entries of one name and different addresses were added, and
\* get_wallet of that name returned the first.
C28_Witness ==
    /\ m_got.found # <<>>
    /\ \E i \in 1..m_got.at, j \in 1..m_got.at :
          /\ i < j
          /\ m_wallets.wallets[i].name = m_got.name
          /\ m_wallets.wallets[j].name = m_got.name
          /\ m_wallets.wallets[i].address # m_wallets.wallets[j].address
          /\ m_got.found[1] = m_wallets.wallets[i]

---------------------------------------------------------------------------
(* Claims about the CLI and its files, checked under SpecCli *)

\* C25: starting from a fresh installation, after import_key has
\* succeeded, deploy_contract obtains the encrypted key import_key stored
\* and, given the password it was stored under, decrypts it to the key
\* that was imported.
C25_DeployUsesImportedKey ==
    (/\ k_deploy.kind # "none"
     /\ k_deploy.after # <<>>
     /\ \A i \in 1..Len(k_deploy.after) : k_deploy.after[i] = "import_key"
     /\ k_log = k_deploy.after
     /\ k_import.kind = "ok"
     /\ k_deploy.password = k_import.val.password)
    => /\ k_deploy.kind = "ok"
       /\ k_deploy.val.encrypted_key = k_import.val.encrypted_key
       /\ k_deploy.val.private_key = k_import.val.private_key

\* C29: when add_wallet or init_cli has returned successfully, and no other
\* command wrote wallet.toml meanwhile, wallet.toml holds every entry it
\* held before, in the same order, followed by the one new entry, also
\* when the file as it stood could not be parsed.
C29_AddingKeepsStoredWallets ==
    \A p \in Terminals :
        (k_proc[p].pc = "returned" /\ k_proc[p].kind = "ok" /\ k_proc[p].alone)
        => k_proc[p].wallets = k_proc[p].before \o k_proc[p].entry

\* C30: when two wallet-adding commands have run at the same time on the
\* same wallet.toml and both have returned successfully, wallet.toml holds
\* both new entries.
C30_NoLostUpdate ==
    (/\ \A p \in Terminals : k_proc[p].pc = "returned" /\ k_proc[p].kind = "ok"
     /\ \E p \in Terminals : k_proc[p].amid)
    => \E i \in 1..Len(f_wallet.wallets), j \in 1..Len(f_wallet.wallets) :
          /\ i # j
          /\ f_wallet.wallets[i] = k_proc[1].entry[1]
          /\ f_wallet.wallets[j] = k_proc[2].entry[1]

---------------------------------------------------------------------------
(* Claims about concurrent callers, checked under SpecThreads *)

\* C19: concurrent calls of the core operations do not interfere: under
\* every interleaving, each call returns what it returns when run alone on
\* the same inputs and the same drawn salt and nonce.
C19_NoInterference ==
    \A t \in Threads :
        th_out[t] # <<>> => th_out[t][1] = RunAlone(th_call[t])

\* Both threads have returned, the second having begun an encryption while
\* the first was in the middle of a decryption.
C19_Witness ==
    /\ th_out[1] # <<>>
    /\ th_out[2] # <<>>
    /\ th_call[1].op = "decrypt_private_key"
    /\ th_call[2].op = "encrypt_private_key"
    /\ th_call[2].amid
    /\ th_out[1][1].ok
    /\ th_out[2][1].ok

=============================================================================
